---- MODULE Spec2Model ----
(***************************************************************************)
(* Model of the Workhorse ADCP protocol controller                         *)
(* (mi/instrument/teledyne/workhorse_monitor_75_khz/driver.py).            *)
(*                                                                         *)
(* One action of Spec is one complete call of the protocol state machine   *)
(* (InstrumentFSM.on_event): the handler registered for the (state, event) *)
(* pair, followed by the exit and enter handlers when the handler returns  *)
(* a next state.  The instrument is external: every prompt it returns and  *)
(* every command outcome is an input of the action, drawn with \E.         *)
(***************************************************************************)
EXTENDS Integers, Sequences, FiniteSets, TLC

VARIABLES
    mode,       \* InstrumentFSM.current_state
    op,         \* the last operation: the event and the mode it was raised in
    trace,      \* the device interactions of the last operation, in order
    faults,     \* every exception raised inside the last operation, in order
    err,        \* the exception the last operation surfaced to its caller
    events,     \* driver events (_driver_event) emitted by the last operation, in order
    sent_cmds,  \* WorkhorseProtocol._sent_cmds, the direct access echo filter
    \* the variables below follow one refresh transaction by transaction
    \* (SpecExec); Spec runs whole operations and leaves them alone
    pending,    \* the executor's slot: the transaction awaiting its response
    flow,       \* where _update_params stands: its position and its key
    resp,       \* the response _parse_get_response holds
    sched,      \* where the handler of a scheduled event stands
    inflight,   \* commands transmitted and not yet resolved
    attempt,    \* the last call of the executor
    \* the parameter dictionary and what surrounds it
    cache,      \* _param_dict: value and timestamp of every parameter
    now,        \* the clock that stamps the updates of the dictionary
    ret,        \* the request and the result of the last operation
    seen,       \* the response lines the last operation handed to _param_dict
    device,     \* the configuration the instrument holds and reports
    \* the receive path
    buf,        \* the bytes received and not yet consumed by the chunker
    ranges,     \* what sieve_function returned for buf
    routed,     \* the last chunk taken from buf: who got it, what was published
    \* the glider file parser
    heap,       \* the state dictionaries in memory, by reference
    parser,     \* GliderParser: _state, _read_state, _timestamp, the stream position
    parser_op,  \* the last call on the parser, with what it found before it ran
    state_key   \* the attributes of StateKey that resolve when looked up

opvars == <<mode, op, trace, faults, err, events, sent_cmds>>
txvars == <<pending, flow, resp, sched, inflight, attempt>>
pvars == <<cache, now, ret, seen, device>>
svars == <<buf, ranges, routed>>
gvars == <<heap, parser, parser_op, state_key>>
vars == <<mode, op, trace, faults, err, events, sent_cmds,
          pending, flow, resp, sched, inflight, attempt,
          cache, now, ret, seen, device,
          buf, ranges, routed,
          heap, parser, parser_op, state_key>>

----------------------------------------------------------------------------
(* ProtocolState *)
UNKNOWN == "UNKNOWN"
COMMAND == "COMMAND"
AUTOSAMPLE == "AUTOSAMPLE"
DIRECT_ACCESS == "DIRECT_ACCESS"

ProtocolState == {UNKNOWN, COMMAND, AUTOSAMPLE, DIRECT_ACCESS}

\* a handler that returns next_state = None
NoState == "None"

(* ProtocolEvent; ENTER and EXIT are raised by the state machine itself. *)
ProtocolEvent ==
    {"DISCOVER", "GET", "SET", "START_AUTOSAMPLE", "STOP_AUTOSAMPLE",
     "START_DIRECT", "STOP_DIRECT", "EXECUTE_DIRECT",
     "CLOCK_SYNC", "SCHEDULED_CLOCK_SYNC",
     "GET_CALIBRATION", "GET_CONFIGURATION",
     "SAVE_SETUP_TO_RAM", "SEND_LAST_SAMPLE",
     "GET_ERROR_STATUS_WORD", "CLEAR_ERROR_STATUS_WORD",
     "GET_FAULT_LOG", "CLEAR_FAULT_LOG",
     "GET_INSTRUMENT_TRANSFORM_MATRIX", "RUN_TEST_200", "PING_DRIVER"}

(* ScheduledJob: the events the scheduler raises. *)
ScheduledJob == {"GET_CONFIGURATION", "GET_CALIBRATION", "SCHEDULED_CLOCK_SYNC"}

(* The (state, event) pairs with a handler, add_handler in __init__. *)
\* UNKNOWN with a handler for START_DIRECT too
HandlersUnknownAndDirect ==
    {<<UNKNOWN, "DISCOVER">>, <<UNKNOWN, "START_DIRECT">>}

HandlersUnknown ==
    {<<UNKNOWN, "DISCOVER">>}

HandlersCommand ==
    {<<COMMAND, "DISCOVER">>,
     <<COMMAND, "GET">>, <<COMMAND, "START_AUTOSAMPLE">>, <<COMMAND, "SET">>,
     <<COMMAND, "CLOCK_SYNC">>, <<COMMAND, "SCHEDULED_CLOCK_SYNC">>,
     <<COMMAND, "GET_CALIBRATION">>, <<COMMAND, "GET_CONFIGURATION">>,
     <<COMMAND, "SAVE_SETUP_TO_RAM">>, <<COMMAND, "SEND_LAST_SAMPLE">>,
     <<COMMAND, "START_DIRECT">>,
     <<COMMAND, "GET_INSTRUMENT_TRANSFORM_MATRIX">>, <<COMMAND, "RUN_TEST_200">>,
     <<COMMAND, "GET_ERROR_STATUS_WORD">>, <<COMMAND, "CLEAR_ERROR_STATUS_WORD">>,
     <<COMMAND, "CLEAR_FAULT_LOG">>, <<COMMAND, "GET_FAULT_LOG">>}

\* AUTOSAMPLE without the handlers of the scheduled events
HandlersAutosampleUnscheduled ==
    {<<AUTOSAMPLE, "STOP_AUTOSAMPLE">>, <<AUTOSAMPLE, "GET">>}

HandlersAutosample ==
    {<<AUTOSAMPLE, "STOP_AUTOSAMPLE">>, <<AUTOSAMPLE, "GET">>,
     <<AUTOSAMPLE, "SCHEDULED_CLOCK_SYNC">>,
     <<AUTOSAMPLE, "GET_CALIBRATION">>, <<AUTOSAMPLE, "GET_CONFIGURATION">>}

HandlersDirectAccess ==
    {<<DIRECT_ACCESS, "EXECUTE_DIRECT">>, <<DIRECT_ACCESS, "STOP_DIRECT">>}

Handlers ==
    HandlersUnknown \cup HandlersCommand \cup HandlersAutosample
        \cup HandlersDirectAccess

(* Prompt: what _wakeup can hand back, or no prompt within the timeout. *)
PromptCOMMAND == "CMD"
PromptERR == "ERR"
Prompt == {PromptCOMMAND, PromptERR}
NoPrompt == "TIMEOUT"

(* InstrumentCmds used by the handlers modelled here. *)
OUTPUT_CALIBRATION_DATA == "AC"
GET_SYSTEM_CONFIGURATION == "PS0"
SAVE_SETUP_TO_RAM == "CK"
START_DEPLOYMENT == "CS"
SEND_LAST_SAMPLE == "CE"
SETcmd == "SET"
GETcmd == "GET"

(* Parameter.TIME *)
TIME == "TT"

----------------------------------------------------------------------------
(* Exceptions and procedure results *)

NoExc == "none"
ExcKinds == {"Timeout", "Protocol", "Parameter", "State", "Socket", "Expired", "Rejected"}

\* one device interaction: the procedures it ran in (outermost first), what
\* was done, the argument and what came back
Step(s, a, o) == [p |-> <<>>, s |-> s, a |-> a, o |-> o]

\* the result of a procedure: its device interactions and the exception it
\* raised (NoExc when it returned)
Res(tr, exc) == [tr |-> tr, exc |-> exc]

\* statement sequencing: r2 runs only when r1 returned
Then(r1, r2) ==
    IF r1.exc # NoExc THEN r1 ELSE Res(r1.tr \o r2.tr, r2.exc)

\* the steps of r, marked as made inside procedure name
In(name, r) ==
    Res([i \in 1..Len(r.tr) |-> [r.tr[i] EXCEPT !.p = <<name>> \o @]], r.exc)

\* an exception together with the part of the handler that raised it
Fault(phase, kind) == [phase |-> phase, kind |-> kind]
NoErr == Fault("", NoExc)

----------------------------------------------------------------------------
(* The transport and the command executor (base class CommandResponse-     *)
(* InstrumentProtocol): what one call does, given what the instrument      *)
(* answers.                                                                *)

\* answers of the instrument to one command: a response followed by the
\* command prompt, a response followed by the error prompt, or nothing
\* before the deadline
CmdOut == {"ok", "ERR", "Timeout"}
\* answers to a command nobody waits on: sent, or not sent before the deadline
SendOut == {"ok", "Timeout"}
\* answers to the wakeup probe
WakeOut == Prompt \cup {NoPrompt}
\* _wakeup_until: the target prompt was seen, or the deadline passed
UntilOut == {"ok", "Timeout"}
\* _send_break: the break went out over its own socket, or the socket failed
BreakOut == {"ok", "Socket"}

\* commands with a build handler (_add_build_handler in __init__)
BuildHandlers ==
    {OUTPUT_CALIBRATION_DATA, SEND_LAST_SAMPLE, SAVE_SETUP_TO_RAM,
     START_DEPLOYMENT, "CY1", "CY0", "FC", "FD", GET_SYSTEM_CONFIGURATION,
     "PS3", "PT200", SETcmd, GETcmd}

\* _wakeup: returns the prompt found, raises InstrumentTimeoutException
wakeup(w) ==
    Res(<<Step("wakeup", "", w)>>, IF w = NoPrompt THEN "Timeout" ELSE NoExc)

\* _wakeup_until(timeout, Prompt.COMMAND)
wakeup_until(u) ==
    Res(<<Step("wakeup_until", PromptCOMMAND, u)>>,
        IF u = "ok" THEN NoExc ELSE "Timeout")

\* an answer that ends with the command prompt and holds the text ' ERR'
ErrText == " ERR"
\* answers of the instrument to a SET
SetOut == CmdOut \cup {ErrText}

\* a response handler of SET that looks at the prompt alone
parse_response_prompt_only(cmd, x) ==
    IF cmd = SETcmd /\ x = PromptERR THEN "Parameter" ELSE NoExc

\* the response handler of a command (_add_response_handler), on a response
\* that ended with prompt x: _parse_set_response raises on the error prompt
\* and on a response that holds ' ERR', the handlers of the simple commands
\* return the response whatever the prompt
parse_response(cmd, x) ==
    IF cmd = SETcmd /\ x \in {PromptERR, ErrText} THEN "Parameter" ELSE NoExc

\* _do_cmd_resp: build, send, wait; the deadline resolves it as Timeout, the
\* error prompt as rejected by the device (with the exception of the
\* response handler when that raises on the error prompt), a response as
\* what the response handler makes of it
do_cmd_resp(cmd, arg, x) ==
    IF cmd \notin BuildHandlers
    THEN Res(<<>>, "Protocol")
    ELSE Res(<<Step(cmd, arg, x)>>,
             IF x = "Timeout" THEN "Timeout"
             ELSE IF parse_response(cmd, x) # NoExc THEN parse_response(cmd, x)
             ELSE IF x = PromptERR THEN "Rejected"
             ELSE NoExc)

\* _do_cmd_no_resp: build and send, wait for nothing
do_cmd_no_resp(cmd, x) ==
    IF cmd \notin BuildHandlers
    THEN Res(<<>>, "Protocol")
    ELSE Res(<<Step(cmd, "", x)>>, IF x = "ok" THEN NoExc ELSE "Timeout")

\* _sync_clock(command, date_time_param, ...): a SET of the time parameter
\* through the executor
sync_clock(command, date_time_param, x) ==
    do_cmd_resp(command, date_time_param, x)

----------------------------------------------------------------------------
(* WorkhorseProtocol private helpers *)

\* _send_break: a socket error on create or connect is logged, the send on
\* the unconnected socket then raises
send_break(b) ==
    Res(<<Step("break", "", b)>>, IF b = "ok" THEN NoExc ELSE "Socket")

\* the value _is_logging computes from the prompt of its probe
logging_of(w) == w # PromptCOMMAND

\* _is_logging: probe with _wakeup; any prompt but the command prompt counts
\* as logging; a probe without prompt raises out of _wakeup
is_logging(w) == In("_is_logging", wakeup(w))

\* _start_logging sending its command whatever the probe says
start_logging_always(w, cs) ==
    In("_start_logging",
       Then(is_logging(w), do_cmd_no_resp(START_DEPLOYMENT, cs)))

\* _start_logging: nothing is sent when the probe says logging
start_logging(w, cs) ==
    In("_start_logging",
       Then(is_logging(w),
            IF logging_of(w)
            THEN Res(<<>>, NoExc)
            ELSE do_cmd_no_resp(START_DEPLOYMENT, cs)))

\* _stop_logging without the check of its probe
stop_logging_unverified(b, u, w) ==
    In("_stop_logging",
       Then(send_break(b), Then(wakeup_until(u), is_logging(w))))

\* _stop_logging going on to its probe when the wait for the prompt ran out
stop_logging_ignoring_timeout(b, u, w) ==
    In("_stop_logging",
       Then(send_break(b),
       Then(Res(wakeup_until(u).tr, NoExc),
       Then(is_logging(w),
            IF logging_of(w) THEN Res(<<>>, "Protocol") ELSE Res(<<>>, NoExc)))))

\* _stop_logging: break, wait for the command prompt, probe
stop_logging(b, u, w) ==
    In("_stop_logging",
       Then(send_break(b),
       Then(wakeup_until(u),
       Then(is_logging(w),
            IF logging_of(w) THEN Res(<<>>, "Protocol") ELSE Res(<<>>, NoExc)))))

----------------------------------------------------------------------------
(* Parameters and the refresh of the parameter dictionary *)

\* Parameter: the attributes in the order of sorted(dir(Parameter)), and
\* their wire mnemonics
ParameterAttrs == <<"INSTRUMENT_ID", "SERIAL_FLOW_CONTROL", "TIME", "XMIT_POWER">>
Parameter ==
    [INSTRUMENT_ID |-> "CI", SERIAL_FLOW_CONTROL |-> "CF", TIME |-> "TT",
     XMIT_POWER |-> "CQ"]

\* what the instrument does with one GET:
\*   x    the answer the executor waited for
\*   term the response ends with the command prompt and holds the '?' echo
\*   more how the re-read loop of _parse_get_response ends when term is
\*        false: with a terminated response, or with _get_raw_response
\*        raising its timeout
\*   key  the last line of the final response names the parameter asked for
\* (fields that the run never looks at are fixed)
GetExchanges ==
    {g \in [x : CmdOut, term : BOOLEAN, more : {"term", "Timeout"}, key : BOOLEAN] :
        /\ g.x # "ok" => (g.term /\ g.key)
        /\ g.term => g.more = "term"
        /\ g.more = "Timeout" => g.key}

\* _parse_get_response
parse_get_response(g) ==
    IF g.x = PromptERR THEN Res(<<>>, "Protocol")
    ELSE LET loop == IF g.term THEN Res(<<>>, NoExc)
                     ELSE Res(<<Step("get_raw_response", PromptCOMMAND, g.more)>>,
                              IF g.more = "Timeout" THEN "Timeout" ELSE NoExc)
         IN Then(loop, Res(<<>>, IF g.key THEN NoExc ELSE "Parameter"))

\* _do_cmd_resp(InstrumentCmds.GET, key)
do_get(key, g) ==
    Then(Res(<<Step(GETcmd, key, g.x)>>, IF g.x = "Timeout" THEN "Timeout" ELSE NoExc),
         parse_get_response(g))

GetSucceeds(g) == do_get("", g).exc = NoExc

\* the keys _update_params asks for: every parameter in attribute order, then
\* the last one once more (the GET after the loop)
UpdateKeys ==
    [i \in 1..Len(ParameterAttrs) |-> Parameter[ParameterAttrs[i]]]
        \o <<Parameter[ParameterAttrs[Len(ParameterAttrs)]]>>

\* the exchange of a GET answered at once with the line asked for
GetOk == [x |-> "ok", term |-> TRUE, more |-> "term", key |-> TRUE]

\* the answers of the instrument to one refresh: one exchange per GET that
\* is sent.  Every GET before the last one sent is answered at once; the
\* last one sent is any exchange, a failing one when the refresh ends early
GetScripts ==
    {sc \in UNION {[1..n -> GetExchanges] : n \in 1..Len(UpdateKeys)} :
        /\ \A i \in 1..(Len(sc) - 1) : sc[i] = GetOk
        /\ Len(sc) < Len(UpdateKeys) => ~GetSucceeds(sc[Len(sc)])}

RECURSIVE GetAll(_, _, _)
\* the loop of _update_params from the i-th key on: the first GET that
\* raises ends the refresh
GetAll(keys, sc, i) ==
    IF i > Len(keys) \/ i > Len(sc) THEN Res(<<>>, NoExc)
    ELSE Then(do_get(keys[i], sc[i]), GetAll(keys, sc, i + 1))

\* _update_params
update_params(w, sc) ==
    In("_update_params", Then(wakeup(w), GetAll(UpdateKeys, sc, 1)))

----------------------------------------------------------------------------
(* The parameter dictionary: the declarations of _build_param_dict, the    *)
(* cached values with their timestamps, and what a response does to them   *)

ParamKeys == {Parameter[a] : a \in DOMAIN Parameter}

\* type, startup flag and default value of the declarations
ParamType == [CI |-> "INT", CF |-> "STRING", TT |-> "STRING", CQ |-> "INT"]
StartupParam == [CI |-> TRUE, CF |-> TRUE, TT |-> FALSE, CQ |-> TRUE]
DefaultValue == [CI |-> 0, CF |-> <<1, 1, 1, 1, 0>>, TT |-> <<>>, CQ |-> 255]

\* the digits the instrument can show in the line of a parameter (the
\* capture group of the parameter's pattern)
LineValues ==
    [CI |-> {<<0>>, <<5>>}, CF |-> {<<1, 1, 1, 1, 0>>}, TT |-> {<<2, 0, 1, 3>>},
     CQ |-> {<<2, 5, 5>>, <<2, 0, 0>>}]

\* a response line that names parameter key and shows digits; well: the
\* line matches the parameter's pattern as a whole
Line(key, digits, well) == [key |-> key, digits |-> digits, well |-> well]
Lines ==
    UNION {{Line(k, d, b) : d \in LineValues[k], b \in BOOLEAN} : k \in ParamKeys}

RECURSIVE ToInt(_)
\* int(s, base=10) of a string of digits
ToInt(d) ==
    IF d = <<>> THEN 0 ELSE ToInt(SubSeq(d, 1, Len(d) - 1)) * 10 + d[Len(d)]

\* a conversion that takes the first digit for the number
parse_value_first_digit(key, digits) ==
    IF ParamType[key] = "INT" THEN digits[1] ELSE digits

\* the match lambda of a declaration: int(match.group(1), base=10) for INT,
\* str(match.group(1)) for STRING
parse_value(key, digits) ==
    IF ParamType[key] = "INT" THEN ToInt(digits) ELSE digits

\* a cache entry; a parameter never updated has no value (its val is a
\* placeholder of its type) and the timestamp of the construction
Entry(set, val, ts) == [set |-> set, val |-> val, ts |-> ts]
NoValue(key) == IF ParamType[key] = "INT" THEN 0 ELSE <<>>
EmptyCache == [k \in ParamKeys |-> Entry(FALSE, NoValue(k), 0)]

\* an update that looks only at the pattern of the parameter asked for
param_dict_update_asked(c, asked, line, t) ==
    IF line.well /\ line.key = asked
    THEN [c EXCEPT ![line.key] = Entry(TRUE, parse_value(line.key, line.digits), t)]
    ELSE c

\* _param_dict.update(line) at time t, during the GET of asked: the
\* parameter whose pattern the line matches takes the parsed value and the
\* timestamp t, whichever parameter was asked for
param_dict_update(c, asked, line, t) ==
    IF line.well
    THEN [c EXCEPT ![line.key] = Entry(TRUE, parse_value(line.key, line.digits), t)]
    ELSE c

RECURSIVE UpdateLines(_, _, _, _, _)
\* the for loop of _parse_get_response over the lines of the response
UpdateLines(c, asked, lines, i, t) ==
    IF i > Len(lines) THEN c
    ELSE UpdateLines(param_dict_update(c, asked, lines[i], t), asked, lines, i + 1, t)

\* the exchange got as far as the updates of _parse_get_response: the
\* executor handed over a response and the re-read loop ended
ReachesUpdate(g) == g.x = "ok" /\ (g.term \/ g.more = "term")

\* the dictionary after _parse_get_response for the GET of key
parse_get_cache(c, key, g, lines, t) ==
    IF ReachesUpdate(g) THEN UpdateLines(c, key, lines, 1, t) ELSE c

RECURSIVE CacheAll(_, _, _, _, _, _)
\* the dictionary after the GETs of _update_params from the i-th on
CacheAll(c, keys, sc, reps, i, t) ==
    IF i > Len(keys) \/ i > Len(sc) THEN c
    ELSE CacheAll(parse_get_cache(c, keys[i], sc[i], reps[i], t),
                  keys, sc, reps, i + 1, t)

\* the dictionary after _update_params
update_params_cache(c, w, sc, reps, t) ==
    IF w = NoPrompt THEN c ELSE CacheAll(c, UpdateKeys, sc, reps, 1, t)

RECURSIVE SeenAll(_, _, _)
\* the lines handed to the dictionary by the GETs of one _update_params
SeenAll(sc, reps, i) ==
    IF i > Len(UpdateKeys) \/ i > Len(sc) THEN <<>>
    ELSE (IF ReachesUpdate(sc[i]) THEN reps[i] ELSE <<>>) \o SeenAll(sc, reps, i + 1)

update_params_seen(w, sc, reps) ==
    IF w = NoPrompt THEN <<>> ELSE SeenAll(sc, reps, 1)

CONFIG_CHANGE == "CONFIG_CHANGE"

\* _param_dict.get_config(): the value of every parameter, None (not set)
\* for one never updated; the timestamps are no part of it
get_config(c) == [k \in ParamKeys |-> <<c[k].set, c[k].val>>]

\* the driver events of _update_params with result r, old the dictionary
\* before its GETs and new the one after them: the comparison of the two
\* configurations stands after the last GET
update_params_events(r, old, new) ==
    IF r.exc = NoExc /\ get_config(new) # get_config(old)
    THEN <<CONFIG_CHANGE>> ELSE <<>>

----------------------------------------------------------------------------
(* Event handlers.  A handler result: the next state it returns (NoState   *)
(* for None or when it raised), its device interactions, the exceptions    *)
(* raised inside it and the one it let out.                                *)

HRes(next, tr, fs, e) == [next |-> next, tr |-> tr, faults |-> fs, err |-> e]

\* a handler without exception handling of its own: it returns next when
\* its body r returned and lets the exception of r out otherwise
Plain(next, r) ==
    IF r.exc = NoExc
    THEN HRes(next, r.tr, <<>>, NoErr)
    ELSE HRes(NoState, r.tr, <<Fault("op", r.exc)>>, Fault("op", r.exc))

\* _handler_unknown_discover with the two target states exchanged
handler_unknown_discover_swapped(w) ==
    Plain(IF logging_of(w) THEN COMMAND ELSE AUTOSAMPLE, is_logging(w))

\* _handler_unknown_discover, also registered for DISCOVER in COMMAND;
\* _is_logging yields only True or False, so the branch for None is never
\* taken
handler_unknown_discover(w) ==
    Plain(IF logging_of(w) THEN AUTOSAMPLE ELSE COMMAND, is_logging(w))

\* _handler_command_start_autosample going on after a failed save setup
handler_command_start_autosample_no_abort(x1, x2, x3) ==
    Plain(AUTOSAMPLE,
          Then(do_cmd_resp(SETcmd, TIME, x1),
          Then(Res(do_cmd_resp(SAVE_SETUP_TO_RAM, "", x2).tr, NoExc),
               do_cmd_no_resp(START_DEPLOYMENT, x3))))

\* _handler_command_start_autosample
handler_command_start_autosample(x1, x2, x3) ==
    Plain(AUTOSAMPLE,
          Then(do_cmd_resp(SETcmd, TIME, x1),
          Then(do_cmd_resp(SAVE_SETUP_TO_RAM, "", x2),
               do_cmd_no_resp(START_DEPLOYMENT, x3))))

\* _handler_autosample_stop_autosample
handler_autosample_stop_autosample(b, u, w) ==
    Plain(COMMAND, stop_logging(b, u, w))

\* the three autosample handlers returning AUTOSAMPLE as their next state
\* when nothing was raised
interrupt_and_restore_reentering(stop, body, restart) ==
    LET try == Then(stop, body)
        phase == IF stop.exc # NoExc THEN "stop" ELSE "op"
        error == IF try.exc # NoExc THEN Fault(phase, try.exc) ELSE NoErr
        final == IF restart.exc # NoExc THEN Fault("restore", restart.exc) ELSE NoErr
    IN HRes(IF error = NoErr /\ final = NoErr THEN AUTOSAMPLE ELSE NoState,
            try.tr \o restart.tr,
            (IF error # NoErr THEN <<error>> ELSE <<>>)
                \o (IF final # NoErr THEN <<final>> ELSE <<>>),
            IF final # NoErr THEN final ELSE error)

\* the three autosample handlers without their finally: the restart runs
\* only after a try that raised nothing
interrupt_and_restore_no_finally(stop, body, restart) ==
    LET try == Then(stop, body)
        phase == IF stop.exc # NoExc THEN "stop" ELSE "op"
        error == IF try.exc # NoExc THEN Fault(phase, try.exc) ELSE NoErr
        final == IF restart.exc # NoExc THEN Fault("restore", restart.exc) ELSE NoErr
    IN IF error # NoErr
       THEN HRes(NoState, try.tr, <<error>>, error)
       ELSE HRes(NoState, try.tr \o restart.tr,
                 IF final # NoErr THEN <<final>> ELSE <<>>, final)

\* the try / except Exception / finally of the three autosample handlers:
\* stop and body run in the try, restart in the finally; an exception of
\* the try is kept in error and raised after the finally; an exception of
\* the finally leaves the handler at once
interrupt_and_restore(stop, body, restart) ==
    LET try == Then(stop, body)
        phase == IF stop.exc # NoExc THEN "stop" ELSE "op"
        error == IF try.exc # NoExc THEN Fault(phase, try.exc) ELSE NoErr
        final == IF restart.exc # NoExc THEN Fault("restore", restart.exc) ELSE NoErr
    IN HRes(NoState,
            try.tr \o restart.tr,
            (IF error # NoErr THEN <<error>> ELSE <<>>)
                \o (IF final # NoErr THEN <<final>> ELSE <<>>),
            IF final # NoErr THEN final ELSE error)

\* _handler_autosample_get_calibration
handler_autosample_get_calibration(b, u, w, x, w2, cs) ==
    interrupt_and_restore(stop_logging(b, u, w),
                          do_cmd_resp(OUTPUT_CALIBRATION_DATA, "", x),
                          start_logging(w2, cs))

\* _handler_autosample_get_configuration
handler_autosample_get_configuration(b, u, w, x, w2, cs) ==
    interrupt_and_restore(stop_logging(b, u, w),
                          do_cmd_resp(GET_SYSTEM_CONFIGURATION, "", x),
                          start_logging(w2, cs))

\* _handler_autosample_clock_sync
handler_autosample_clock_sync(b, u, w, x, w2, cs) ==
    interrupt_and_restore(stop_logging(b, u, w),
                          sync_clock(SETcmd, TIME, x),
                          start_logging(w2, cs))

\* _handler_command_clock_sync: wakeup, then _sync_clock called with the
\* time parameter in the place of the command
handler_command_clock_sync(w, x) ==
    Plain(NoState, Then(wakeup(w), sync_clock(TIME, PromptCOMMAND, x)))

\* the command handlers that send one command and wait for its response
SimpleCmd ==
    [GET_CALIBRATION |-> OUTPUT_CALIBRATION_DATA,
     GET_CONFIGURATION |-> GET_SYSTEM_CONFIGURATION,
     SAVE_SETUP_TO_RAM |-> SAVE_SETUP_TO_RAM,
     GET_INSTRUMENT_TRANSFORM_MATRIX |-> "PS3",
     RUN_TEST_200 |-> "PT200",
     GET_ERROR_STATUS_WORD |-> "CY1",
     CLEAR_ERROR_STATUS_WORD |-> "CY0",
     CLEAR_FAULT_LOG |-> "FC",
     GET_FAULT_LOG |-> "FD"]

\* _handler_command_get_calibration, _get_configuration, _save_setup_to_ram,
\* _get_instrument_transform_matrix, _run_test_200, _acquire_error_status_word,
\* _clear_error_status_word, _clear_fault_log, _display_fault_log
handler_command_simple(event, x) ==
    Plain(NoState, do_cmd_resp(SimpleCmd[event], "", x))

\* _handler_command_send_last_sample
handler_command_send_last_sample(x) ==
    Plain(NoState, do_cmd_no_resp(SEND_LAST_SAMPLE, x))

\* _handler_command_start_direct
handler_command_start_direct ==
    HRes(DIRECT_ACCESS, <<>>, <<>>, NoErr)

\* _handler_direct_access_stop_direct returning to AUTOSAMPLE
handler_direct_access_stop_direct_to_autosample ==
    HRes(AUTOSAMPLE, <<>>, <<>>, NoErr)

\* _handler_direct_access_stop_direct
handler_direct_access_stop_direct ==
    HRes(COMMAND, <<>>, <<>>, NoErr)

\* _handler_direct_access_execute_direct: the raw data goes to the transport
handler_direct_access_execute_direct(data) ==
    Plain(NoState, Res(<<Step("direct", data, "ok")>>, NoExc))

\* a GET handler that returns COMMAND as its next state after a refresh
handler_command_get_to_command(expired, w, sc, still) ==
    IF ~expired
    THEN Plain(NoState, Res(<<>>, NoExc))
    ELSE Plain(COMMAND,
               Then(update_params(w, sc),
                    Res(<<>>, IF still THEN "Expired" ELSE NoExc)))

\* a second pass that returns what the refresh left, expired or not
handler_command_get_unchecked(expired, w, sc, still) ==
    IF ~expired
    THEN Plain(NoState, Res(<<>>, NoExc))
    ELSE Plain(NoState, update_params(w, sc))

\* _handler_command_get (COMMAND and AUTOSAMPLE): a first pass over the
\* cache; when a value is expired, one refresh and a second pass, whose
\* expiration is let out
handler_command_get(expired, w, sc, still) ==
    IF ~expired
    THEN Plain(NoState, Res(<<>>, NoExc))
    ELSE Plain(NoState,
               Then(update_params(w, sc),
                    Res(<<>>, IF still THEN "Expired" ELSE NoExc)))

\* ParameterDictVisibility of the declarations in _build_param_dict
Visibility ==
    [CI |-> "READ_WRITE", CF |-> "IMMUTABLE", TT |-> "READ_ONLY",
     CQ |-> "READ_WRITE"]

\* a check that looks only at the first key of the dict
verify_not_readonly_first(keys, startup) ==
    LET locked == {"READ_ONLY"} \cup (IF startup THEN {} ELSE {"IMMUTABLE"})
    IN Res(<<>>, IF Visibility[keys[1]] \in locked THEN "Parameter" ELSE NoExc)

\* _verify_not_readonly(params, startup): raises when a key of the dict is
\* read-only, or immutable outside of the startup application
verify_not_readonly(keys, startup) ==
    LET locked == {"READ_ONLY"} \cup (IF startup THEN {} ELSE {"IMMUTABLE"})
    IN Res(<<>>, IF \E i \in DOMAIN keys : Visibility[keys[i]] \in locked
                 THEN "Parameter" ELSE NoExc)

RECURSIVE SetAll(_, _, _)
\* the loop of _set_params over the dict from its i-th key on: one SET per
\* key, the first one that raises ends the loop
SetAll(keys, xs, i) ==
    IF i > Len(keys) \/ i > Len(xs) THEN Res(<<>>, NoExc)
    ELSE Then(do_cmd_resp(SETcmd, keys[i], xs[i]), SetAll(keys, xs, i + 1))

\* _set_params with a refresh after its SETs whether they raised or not
set_params_refresh_always(keys, xs, startup, w, sc) ==
    Then(verify_not_readonly(keys, startup),
         Res(SetAll(keys, xs, 1).tr \o update_params(w, sc).tr,
             IF SetAll(keys, xs, 1).exc # NoExc
             THEN SetAll(keys, xs, 1).exc ELSE update_params(w, sc).exc))

\* _set_params without the refresh after the SETs
set_params_no_refresh(keys, xs, startup, w, sc) ==
    Then(verify_not_readonly(keys, startup), SetAll(keys, xs, 1))

\* _set_params for a dict with the keys in iteration order, called by
\* _handler_command_set and by the startup application
set_params(keys, xs, startup, w, sc) ==
    Then(verify_not_readonly(keys, startup),
    Then(SetAll(keys, xs, 1),
         update_params(w, sc)))

\* _handler_command_set
handler_command_set(keys, xs, startup, w, sc) ==
    Plain(NoState, set_params(keys, xs, startup, w, sc))

\* the keys of the startup configuration, get_startup_list
StartupKeys == <<"CI", "CF", "CQ">>

\* _apply_params: the startup configuration is set with the startup flag on
apply_params(xs, w, sc) ==
    In("_apply_params", set_params(StartupKeys, xs, TRUE, w, sc))

\* a state check that lets every state pass
startup_state_any(st) == TRUE

\* the state check of apply_startup_params
startup_state_ok(st) == st \in {COMMAND, AUTOSAMPLE}

\* apply_startup_params stopping and restarting by the tracked state
apply_startup_params_by_state(st, w0, b, u, w, xs, rw, sc, w2, cs) ==
    IF ~startup_state_ok(st)
    THEN HRes(NoState, <<>>, <<Fault("state", "Protocol")>>, Fault("state", "Protocol"))
    ELSE LET probe == is_logging(w0)
         IN IF probe.exc # NoExc
            THEN HRes(NoState, probe.tr, <<Fault("probe", probe.exc)>>,
                      Fault("probe", probe.exc))
            ELSE LET stop == IF st = AUTOSAMPLE THEN stop_logging(b, u, w)
                             ELSE Res(<<>>, NoExc)
                     try == Then(stop, apply_params(xs, rw, sc))
                     phase == IF stop.exc # NoExc THEN "stop" ELSE "op"
                     error == IF try.exc # NoExc THEN Fault(phase, try.exc) ELSE NoErr
                     restart == IF st = AUTOSAMPLE
                                THEN start_logging(w2, cs) ELSE Res(<<>>, NoExc)
                     final == IF restart.exc # NoExc
                              THEN Fault("restore", restart.exc) ELSE NoErr
                 IN HRes(NoState, probe.tr \o try.tr \o restart.tr,
                         (IF error # NoErr THEN <<error>> ELSE <<>>)
                             \o (IF final # NoErr THEN <<final>> ELSE <<>>),
                         IF final # NoErr THEN final ELSE error)

\* apply_startup_params called in state st: the state check, the probe, then
\* try (stop when logging, apply) / except / finally (restart when logging)
apply_startup_params(st, w0, b, u, w, xs, rw, sc, w2, cs) ==
    IF ~startup_state_ok(st)
    THEN HRes(NoState, <<>>, <<Fault("state", "Protocol")>>, Fault("state", "Protocol"))
    ELSE LET probe == is_logging(w0)
         IN IF probe.exc # NoExc
            THEN HRes(NoState, probe.tr, <<Fault("probe", probe.exc)>>,
                      Fault("probe", probe.exc))
            ELSE LET stop == IF logging_of(w0) THEN stop_logging(b, u, w)
                             ELSE Res(<<>>, NoExc)
                     try == Then(stop, apply_params(xs, rw, sc))
                     phase == IF stop.exc # NoExc THEN "stop" ELSE "op"
                     error == IF try.exc # NoExc THEN Fault(phase, try.exc) ELSE NoErr
                     restart == IF logging_of(w0)
                                THEN start_logging(w2, cs) ELSE Res(<<>>, NoExc)
                     final == IF restart.exc # NoExc
                              THEN Fault("restore", restart.exc) ELSE NoErr
                 IN HRes(NoState, probe.tr \o try.tr \o restart.tr,
                         (IF error # NoErr THEN <<error>> ELSE <<>>)
                             \o (IF final # NoErr THEN <<final>> ELSE <<>>),
                         IF final # NoErr THEN final ELSE error)

RECURSIVE DirtyFrom(_, _, _)
\* the loop of _instrument_config_dirty over keys from the i-th on: True at
\* the first parameter whose value differs from its configured value
DirtyFrom(c, keys, i) ==
    IF i > Len(keys) THEN FALSE
    ELSE IF ~c[keys[i]].set \/ c[keys[i]].val # DefaultValue[keys[i]] THEN TRUE
    ELSE DirtyFrom(c, keys, i + 1)

\* a comparison that runs over every declared parameter
instrument_config_dirty_all(c) == DirtyFrom(c, UpdateKeys, 1)

\* _instrument_config_dirty on the dictionary its refresh left
instrument_config_dirty(c) == DirtyFrom(c, StartupKeys, 1)

----------------------------------------------------------------------------
(* Enter handlers and the state machine *)

STATE_CHANGE == "STATE_CHANGE"

\* the result of an enter handler: its interactions, its exception, the
\* driver events it emitted
ERes(r, ev) == [tr |-> r.tr, exc |-> r.exc, ev |-> ev]

\* an enter handler that sends the state change event before its refresh
handler_command_enter_notify_first(w, sc) ==
    ERes(update_params(w, sc), <<STATE_CHANGE>>)

\* _handler_command_enter: refresh, then the state change event
handler_command_enter(w, sc) ==
    LET r == update_params(w, sc)
    IN ERes(r, IF r.exc = NoExc THEN <<STATE_CHANGE>> ELSE <<>>)

\* an enter handler of AUTOSAMPLE that refreshes as the one of COMMAND does
handler_autosample_enter_refreshing ==
    ERes(update_params(PromptCOMMAND, [i \in 1..Len(UpdateKeys) |-> GetOk]),
         <<STATE_CHANGE>>)

\* _handler_autosample_enter
handler_autosample_enter ==
    ERes(Res(<<>>, NoExc), <<STATE_CHANGE>>)

\* _handler_direct_access_enter (it also empties _sent_cmds, see on_event)
handler_direct_access_enter ==
    ERes(Res(<<>>, NoExc), <<STATE_CHANGE>>)

\* _handler_unknown_enter
handler_unknown_enter ==
    ERes(Res(<<>>, NoExc), <<>>)

enter_handler(st, w, sc) ==
    CASE st = COMMAND -> handler_command_enter(w, sc)
      [] st = AUTOSAMPLE -> handler_autosample_enter
      [] st = DIRECT_ACCESS -> handler_direct_access_enter
      [] OTHER -> handler_unknown_enter

\* an enter handler of DIRECT_ACCESS that keeps the echo filter list
direct_access_enter_sent_kept(sent) == sent

\* _handler_direct_access_enter: self._sent_cmds = []
direct_access_enter_sent(sent) == <<>>

\* InstrumentFSM.on_event after the handler h of the current state st ran:
\* when h returned a state, the exit handler (all are empty), the change of
\* current_state, then the enter handler of the new state
on_event(st, h, w, sc) ==
    IF h.next \notin ProtocolState
    THEN [mode |-> st, entered |-> FALSE, tr |-> h.tr, faults |-> h.faults,
          err |-> h.err, ev |-> <<>>]
    ELSE LET e == enter_handler(h.next, w, sc)
             f == IF e.exc # NoExc THEN Fault("enter", e.exc) ELSE NoErr
         IN [mode |-> h.next, entered |-> TRUE, tr |-> h.tr \o e.tr,
             faults |-> h.faults \o (IF f # NoErr THEN <<f>> ELSE <<>>),
             err |-> f, ev |-> e.ev]

----------------------------------------------------------------------------
(* Bounds *)

\* raw payloads of direct access
RawData == {"a", "b"}
\* longest echo filter list followed
MaxSent == 1
\* the clock stops here
MaxClock == 1
\* longest echo filter list followed in the direct access sessions
MaxDirect == 2

----------------------------------------------------------------------------
(* Specification *)

\* op: the event raised, the mode it was raised in, the next state its
\* handler returned
Op(event, from, next) == [ev |-> event, from |-> from, next |-> next]
NoOp == Op("", UNKNOWN, NoState)

\* no transaction, no refresh and no scheduled handler under way
NoTx == [owner |-> "", cmd |-> "", key |-> ""]
NoResp == [ends |-> FALSE, q |-> FALSE, key |-> FALSE]
NoAttempt == [by |-> "", before |-> NoTx, after |-> NoTx, result |-> "", sent |-> FALSE]
Flow(pc, i, exc) == [pc |-> pc, i |-> i, exc |-> exc]

\* request and result of an operation: what kind it was, the keys it named,
\* the values it asked for or returned, its boolean result (the startup flag
\* of a SET), and the time it ran at
Ret(kind, keys, vals, flag) ==
    [kind |-> kind, keys |-> keys, vals |-> vals, flag |-> flag, at |-> now]
NoRet == Ret("", {}, <<>>, FALSE)

\* the values the instrument holds by default
CanonDevice ==
    [CI |-> <<0>>, CF |-> <<1, 1, 1, 1, 0>>, TT |-> <<2, 0, 1, 3>>, CQ |-> <<2, 5, 5>>]
Devices ==
    {[CanonDevice EXCEPT !["CI"] = a, !["CQ"] = b] :
        a \in LineValues["CI"], b \in LineValues["CQ"]}

----------------------------------------------------------------------------
(* The glider file parser (mi/dataset/parser/glider.py): its state objects *)

\* StateKey as glider.py declares it: POSITION and nothing else
StateKey == {"POSITION"}
\* StateKey when the lookup of TIMESTAMP, which the parser uses and glider.py
\* does not declare, resolves through BaseEnum
StateKeyResolving == {"POSITION", "TIMESTAMP"}
\* the keys POSITION and TIMESTAMP stand for in a state dictionary
KeyOf == [POSITION |-> "position", TIMESTAMP |-> "timestamp"]

\* no object: None
NoRef == "None"
\* the dictionary __init__ builds for _read_state
OwnRef == "own"
\* the objects a caller holds and can hand to set_state: two saved states,
\* a dictionary without its timestamp key, and something that is no dictionary
SavedRefs == {"a", "b"}
CallerRefs == SavedRefs \cup {"nokey", "nodict"}
Refs == {OwnRef} \cup CallerRefs

\* the largest position and the largest timestamp of a run
MaxPosition == 3
MaxStamp == 2

\* a dictionary holding both keys
StateDict(pos, ts) ==
    [dict |-> TRUE, keys |-> {"position", "timestamp"},
     position |-> pos, timestamp |-> ts]

\* the object reference r names, as the caller of the parser reads it
Deref(h, r) == IF r = NoRef THEN NoRef ELSE h[r]

\* a parser object
Parser(st, rd, ts, pos) ==
    [built |-> TRUE, state |-> st, read_state |-> rd, timestamp |-> ts,
     stream |-> pos]

\* no parser: the constructor raised
NoParser == [Parser(NoRef, NoRef, 0, 0) EXCEPT !.built = FALSE]

\* set_state(state_obj): the two checks, then _timestamp, _state and
\* _read_state are bound; _state and _read_state are bound to the one object
\* handed in, and the stream seeks to its position
set_state(h, sk, p, ref) ==
    IF ~h[ref].dict
    THEN [heap |-> h, parser |-> p, exc |-> "DatasetParser"]
    ELSE IF KeyOf["POSITION"] \notin h[ref].keys
    THEN [heap |-> h, parser |-> p, exc |-> "DatasetParser"]
    ELSE IF "TIMESTAMP" \notin sk
    THEN [heap |-> h, parser |-> p, exc |-> "Attribute"]
    ELSE IF KeyOf["TIMESTAMP"] \notin h[ref].keys
    THEN [heap |-> h, parser |-> p, exc |-> "DatasetParser"]
    ELSE [heap |-> h,
          parser |-> Parser(ref, ref, h[ref].timestamp + 1, h[ref].position),
          exc |-> NoExc]

\* _increment_state(increment, timestamp): the dictionary _read_state refers
\* to is updated in place, the position first
increment_state(h, sk, p, increment, timestamp) ==
    LET h1 == [h EXCEPT ![p.read_state].position = @ + increment]
    IN IF "TIMESTAMP" \notin sk
       THEN [heap |-> h1, exc |-> "Attribute"]
       ELSE [heap |-> [h1 EXCEPT ![p.read_state].timestamp = timestamp],
             exc |-> NoExc]

\* __init__(state): _state is the state handed in, _read_state a new
\* dictionary at position 0, and a state that is not empty is set
parser_init(h, sk, state) ==
    IF "TIMESTAMP" \notin sk
    THEN [heap |-> h, parser |-> NoParser, exc |-> "Attribute"]
    ELSE LET h0 == [h EXCEPT ![OwnRef] = StateDict(0, 0)]
             p0 == Parser(state, OwnRef, 0, 0)
         IN IF state # NoRef /\ h0[state].dict /\ h0[state].keys # {}
            THEN set_state(h0, sk, p0, state)
            ELSE [heap |-> h0, parser |-> p0, exc |-> NoExc]

\* the memory before the parser is built: the caller's objects
CallerHeap(a, b) ==
    [r \in Refs |->
        IF r = "a" THEN a
        ELSE IF r = "b" THEN b
        ELSE IF r = "nokey"
             THEN [dict |-> TRUE, keys |-> {"position"}, position |-> 0, timestamp |-> 0]
        ELSE IF r = "nodict"
             THEN [dict |-> FALSE, keys |-> {}, position |-> 0, timestamp |-> 0]
        ELSE StateDict(0, 0)]

NoParserOp ==
    [name |-> "__init__", arg |-> NoRef, increment |-> 0, timestamp |-> 0,
     exc |-> NoExc, read |-> NoRef, published |-> NoRef]

\* a call on the parser and what _read_state and _state held before it
ParserOp(name, arg, inc, ts, exc) ==
    [name |-> name, arg |-> arg, increment |-> inc, timestamp |-> ts, exc |-> exc,
     read |-> Deref(heap, parser.read_state),
     published |-> Deref(heap, parser.state)]

\* the parser built from a state, with StateKey resolving the attributes sk
ParserBuilt(a, b, sk, state) ==
    LET r == parser_init(CallerHeap(a, b), sk, state)
    IN /\ state_key = sk
       /\ heap = r.heap
       /\ parser = r.parser
       /\ parser_op = [NoParserOp EXCEPT !.arg = state, !.exc = r.exc]

\* the glider parser with StateKey as written, built without a state
ParserInit == ParserBuilt(StateDict(0, 0), StateDict(1, 1), StateKey, NoRef)

ParamInit ==
    /\ cache = EmptyCache
    /\ now = 0
    /\ ret = NoRet
    /\ seen = <<>>

\* nothing received yet
NoRouted == [chunk |-> <<>>, to |-> "", samples |-> <<>>]
SieveInit ==
    /\ buf = <<>>
    /\ ranges = <<>>
    /\ routed = NoRouted

TxInit ==
    /\ pending = NoTx
    /\ flow = Flow("idle", 0, NoExc)
    /\ resp = NoResp
    /\ sched = "idle"
    /\ inflight = 0
    /\ attempt = NoAttempt

Init ==
    /\ mode = UNKNOWN
    /\ op = NoOp
    /\ trace = <<>>
    /\ faults = <<>>
    /\ err = NoErr
    /\ events = <<>>
    /\ sent_cmds = <<>>
    /\ TxInit
    /\ ParamInit
    /\ SieveInit
    /\ ParserInit
    /\ device = CanonDevice

\* the lines of the responses of one refresh when the instrument shows, for
\* every GET that ends with the line asked for, that line with its value
CanonReply(dev, key, g) ==
    IF ReachesUpdate(g) /\ g.key THEN <<Line(key, dev[key], TRUE)>> ELSE <<>>
CanonReplies(dev, sc) ==
    [i \in DOMAIN sc |-> CanonReply(dev, UpdateKeys[i], sc[i])]

\* one call of on_event for an event that has handler h in the current mode;
\* hev are the driver events of the handler, sent is _sent_cmds, c the
\* dictionary, sn the lines seen, dev the instrument's configuration as the
\* handler leaves them, r its result
DoFull(event, h, hev, w, sc, sent, c, sn, dev, r) ==
    LET o == on_event(mode, h, w, sc)
        refreshed == o.entered /\ o.mode = COMMAND
        reps == CanonReplies(dev, sc)
        c2 == IF refreshed THEN update_params_cache(c, w, sc, reps, now) ELSE c
        eev == IF refreshed
               THEN update_params_events(update_params(w, sc), c, c2) ELSE <<>>
    IN /\ mode' = o.mode
       /\ op' = Op(event, mode, h.next)
       /\ trace' = o.tr
       /\ faults' = o.faults
       /\ err' = o.err
       /\ events' = hev \o eev \o o.ev
       /\ sent_cmds' = IF o.entered /\ o.mode = DIRECT_ACCESS
                       THEN direct_access_enter_sent(sent) ELSE sent
       /\ cache' = c2
       /\ seen' = IF refreshed THEN sn \o update_params_seen(w, sc, reps) ELSE sn
       /\ device' = dev
       /\ ret' = r
       /\ UNCHANGED now
       /\ UNCHANGED txvars
       /\ UNCHANGED svars
       /\ UNCHANGED gvars

DoSent(event, h, w, sc, sent) ==
    DoFull(event, h, <<>>, w, sc, sent, cache, <<>>, device, NoRet)

Do(event, h, w, sc) == DoSent(event, h, w, sc, sent_cmds)

\* the answers of the instrument, with the answers that the run never asks
\* for fixed: the prompt of a probe that is not made, the answer to a
\* command that is not sent
NoSc == [i \in 1..Len(UpdateKeys) |-> GetOk]
NoRf == [w |-> PromptCOMMAND, sc |-> NoSc]

\* a GET that runs into its deadline
GetTimeout == [x |-> "Timeout", term |-> TRUE, more |-> "term", key |-> TRUE]

\* the refreshes followed: the wakeup finds a prompt or none (which prompt
\* makes no difference to _update_params); the GET that fails is the first
\* one, in any way, or a later one, by its deadline
FailAt(j, g) == [i \in 1..j |-> IF i < j THEN GetOk ELSE g]
ScriptsFollowed ==
    {NoSc} \cup {FailAt(1, g) : g \in {e \in GetExchanges : ~GetSucceeds(e)}}
           \cup {FailAt(j, GetTimeout) : j \in 2..Len(UpdateKeys)}
Refreshes ==
    {[w |-> NoPrompt, sc |-> NoSc]} \cup
    {[w |-> PromptCOMMAND, sc |-> sc] : sc \in ScriptsFollowed}

\* the refreshes followed where the steps before the refresh are followed in
\* full (short): the one that finds no prompt, the one that runs to its end
\* and one that runs into the deadline of its second GET; all of Refreshes
\* otherwise
RefreshesFor(short) ==
    IF short
    THEN {[w |-> NoPrompt, sc |-> NoSc], NoRf,
          [w |-> PromptCOMMAND, sc |-> FailAt(2, GetTimeout)]}
    ELSE Refreshes

StopIn ==
    {i \in [b : BreakOut, u : UntilOut, w : WakeOut] :
        /\ i.b # "ok" => i.u = "ok"
        /\ (i.b # "ok" \/ i.u # "ok") => i.w = PromptCOMMAND}

RestartIn ==
    {i \in [w : WakeOut, cs : SendOut] : logging_of(i.w) => i.cs = "ok"}

InterruptIn ==
    {i \in [stop : StopIn, x : CmdOut, restart : RestartIn] :
        stop_logging(i.stop.b, i.stop.u, i.stop.w).exc # NoExc => i.x = "ok"}

\* the refresh inputs of the enter handler that follows handler result h
EnterIn(h) == IF h.next = COMMAND THEN Refreshes ELSE {NoRf}

Discover ==
    /\ <<mode, "DISCOVER">> \in Handlers
    /\ \E w \in WakeOut :
          LET h == handler_unknown_discover(w)
          IN \E rf \in EnterIn(h) : Do("DISCOVER", h, rf.w, rf.sc)

StartAutosample ==
    /\ <<mode, "START_AUTOSAMPLE">> \in Handlers
    /\ \E x1 \in CmdOut, x2 \in CmdOut, x3 \in SendOut :
          Do("START_AUTOSAMPLE", handler_command_start_autosample(x1, x2, x3),
             NoRf.w, NoRf.sc)

StopAutosample ==
    /\ <<mode, "STOP_AUTOSAMPLE">> \in Handlers
    /\ \E i \in StopIn :
          LET h == handler_autosample_stop_autosample(i.b, i.u, i.w)
          IN \E rf \in EnterIn(h) : Do("STOP_AUTOSAMPLE", h, rf.w, rf.sc)

AutosampleGetCalibration ==
    /\ mode = AUTOSAMPLE
    /\ \E i \in InterruptIn :
          Do("GET_CALIBRATION",
             handler_autosample_get_calibration(i.stop.b, i.stop.u, i.stop.w, i.x,
                                                i.restart.w, i.restart.cs),
             NoRf.w, NoRf.sc)

AutosampleGetConfiguration ==
    /\ mode = AUTOSAMPLE
    /\ \E i \in InterruptIn :
          Do("GET_CONFIGURATION",
             handler_autosample_get_configuration(i.stop.b, i.stop.u, i.stop.w, i.x,
                                                  i.restart.w, i.restart.cs),
             NoRf.w, NoRf.sc)

AutosampleClockSync ==
    /\ mode = AUTOSAMPLE
    /\ \E i \in InterruptIn :
          Do("SCHEDULED_CLOCK_SYNC",
             handler_autosample_clock_sync(i.stop.b, i.stop.u, i.stop.w, i.x,
                                           i.restart.w, i.restart.cs),
             NoRf.w, NoRf.sc)

CommandClockSync ==
    /\ mode = COMMAND
    /\ \E event \in {"CLOCK_SYNC", "SCHEDULED_CLOCK_SYNC"}, w \in WakeOut, x \in CmdOut :
          Do(event, handler_command_clock_sync(w, x), NoRf.w, NoRf.sc)

CommandSimple ==
    /\ mode = COMMAND
    /\ \E event \in DOMAIN SimpleCmd, x \in CmdOut :
          Do(event, handler_command_simple(event, x), NoRf.w, NoRf.sc)

CommandSendLastSample ==
    /\ mode = COMMAND
    /\ \E x \in SendOut :
          Do("SEND_LAST_SAMPLE", handler_command_send_last_sample(x), NoRf.w, NoRf.sc)

\* the lines of the responses of one refresh: as CanonReplies, but for at
\* most one GET (any GET of a refresh that runs to its end, the failing GET
\* of one that does not) whose response holds instead a line that names the
\* parameter without matching its pattern, the line of another parameter
\* before the line asked for, or the line of another parameter alone
OtherKey(key) == CHOOSE k \in ParamKeys \ {key} : k # "TT"
OddReplies(dev, sc, j) ==
    LET key == UpdateKeys[j]
        g == sc[j]
    IN
    IF ~ReachesUpdate(g) \/ (Len(sc) < Len(UpdateKeys) /\ j < Len(sc)) THEN {}
    ELSE IF g.key
    THEN {<<Line(key, dev[key], FALSE)>>,
          <<Line(OtherKey(key), dev[OtherKey(key)], TRUE), Line(key, dev[key], TRUE)>>}
    ELSE {<<Line(OtherKey(key), dev[OtherKey(key)], TRUE)>>}
RichReplies(dev, sc) ==
    {CanonReplies(dev, sc)} \cup
    UNION {{[i \in DOMAIN sc |->
                IF i = j THEN r ELSE CanonReply(dev, UpdateKeys[i], sc[i])] :
               r \in OddReplies(dev, sc, j)} : j \in DOMAIN sc}

\* the replies followed: all of RichReplies, or the canonical ones alone
RepliesFor(rich, dev, sc) ==
    IF rich THEN RichReplies(dev, sc) ELSE {CanonReplies(dev, sc)}

\* the staleness threshold of the dictionary: a value is expired at time t
\* when its timestamp lies more than MaxAge before t
MaxAge == 0
IsExpired(c, k, t) == c[k].ts + MaxAge < t

\* the parameter lists asked of GET: one key, or ALL
GetRequests(rich) ==
    IF rich THEN {{"CI"}, ParamKeys} ELSE {ParamKeys}

\* _handler_command_get with the dictionary: expire_time is the time of the
\* call; the first pass raises the expiration of a requested value, which
\* brings one refresh and a second pass against the same expire_time
GetWith(rich) ==
    /\ <<mode, "GET">> \in Handlers
    /\ \E want \in GetRequests(rich) :
        LET expire_time == now
            expired == \E k \in want : IsExpired(cache, k, expire_time)
        IN \E rf \in (IF expired THEN Refreshes ELSE {NoRf}) :
            \E reps \in RepliesFor(rich /\ expired, device, rf.sc) :
              LET c2 == IF expired
                        THEN update_params_cache(cache, rf.w, rf.sc, reps, now)
                        ELSE cache
                  sn == IF expired THEN update_params_seen(rf.w, rf.sc, reps) ELSE <<>>
                  still == /\ expired
                           /\ update_params(rf.w, rf.sc).exc = NoExc
                           /\ \E k \in want : IsExpired(c2, k, expire_time)
                  h == handler_command_get(expired, rf.w, rf.sc, still)
                  hev == IF expired
                         THEN update_params_events(update_params(rf.w, rf.sc),
                                                   cache, c2)
                         ELSE <<>>
              IN DoFull("GET", h, hev, NoRf.w, NoRf.sc, sent_cmds, c2, sn, device,
                        Ret("get", want,
                            IF h.err = NoErr THEN [k \in want |-> c2[k]] ELSE <<>>,
                            h.err = NoErr))

Get == GetWith(FALSE)

\* the dicts handed to SET, as the sequence of their keys in iteration order
SetKeySeqs(rich) ==
    {<<k>> : k \in ParamKeys} \cup
    (IF rich THEN {q \in ParamKeys \X ParamKeys : q[1] # q[2]} ELSE {})

\* the answers to the SETs of one dict: one per SET sent
SetAnswers(keys, startup) ==
    IF verify_not_readonly(keys, startup).exc # NoExc THEN {<<>>}
    ELSE {xs \in UNION {[1..n -> SetOut] : n \in 1..Len(keys)} :
             /\ \A i \in 1..(Len(xs) - 1) : xs[i] = "ok"
             /\ Len(xs) < Len(keys) => xs[Len(xs)] # "ok"}

\* the startup flag of a SET matters to a dict with an immutable key only
StartupFlags(keys, rich) ==
    IF rich /\ \E i \in DOMAIN keys : Visibility[keys[i]] = "IMMUTABLE"
    THEN BOOLEAN ELSE {FALSE}

\* the values a dict can ask for: any value of the range for its first key,
\* the values the instrument holds for the others
ReqValues(keys, rich, dev) ==
    IF rich
    THEN {[k \in {keys[i] : i \in DOMAIN keys} |->
              IF k = keys[1] THEN v ELSE dev[k]] : v \in LineValues[keys[1]]}
    ELSE {[k \in {keys[i] : i \in DOMAIN keys} |-> dev[k]]}

\* what the instrument holds after the SETs that it accepted: the value
\* asked for, or another value of the parameter's range (coerced)
DevicesAfter(keys, xs, vals, rich, dev) ==
    LET accepted(k) == \E i \in DOMAIN xs : keys[i] = k /\ xs[i] = "ok"
    IN IF rich /\ Len(keys) = 1 /\ accepted(keys[1])
       THEN {[dev EXCEPT ![keys[1]] = v] : v \in LineValues[keys[1]]}
       ELSE {[k \in ParamKeys |-> IF accepted(k) THEN vals[k] ELSE dev[k]]}

\* _handler_command_set with the dictionary and the instrument (the refresh
\* after the SETs of a dict of several keys is followed where every GET is
\* answered; responses with other lines are followed in the refresh of a
\* dict of one key that runs to its end on an instrument that took the
\* value asked for; a dict that the read-only check refuses asks for the
\* values the instrument holds)
SetWith(rich) ==
    /\ <<mode, "SET">> \in Handlers
    /\ \E keys \in SetKeySeqs(rich) :
       \E startup \in StartupFlags(keys, rich) :
        \E xs \in SetAnswers(keys, startup),
           vals \in ReqValues(keys, rich /\ verify_not_readonly(keys, startup).exc = NoExc,
                              device) :
          \E dev \in DevicesAfter(keys, xs, vals, rich, device) :
            LET sets == Then(verify_not_readonly(keys, startup), SetAll(keys, xs, 1))
                all == sets.exc = NoExc
            IN \E rf \in (IF all /\ Len(keys) = 1 THEN RefreshesFor(rich) ELSE {NoRf}) :
                \E reps \in RepliesFor(rich /\ all /\ Len(keys) = 1 /\ rf.sc = NoSc
                                            /\ dev[keys[1]] = vals[keys[1]],
                                       dev, rf.sc) :
                  LET c2 == IF all
                            THEN update_params_cache(cache, rf.w, rf.sc, reps, now)
                            ELSE cache
                  IN
                   DoFull("SET", handler_command_set(keys, xs, startup, rf.w, rf.sc),
                          IF all
                          THEN update_params_events(update_params(rf.w, rf.sc),
                                                    cache, c2)
                          ELSE <<>>,
                          NoRf.w, NoRf.sc, sent_cmds, c2,
                          IF all THEN update_params_seen(rf.w, rf.sc, reps) ELSE <<>>,
                          dev,
                          Ret("set", {keys[i] : i \in DOMAIN keys},
                              [k \in DOMAIN vals |-> parse_value(k, vals[k])], startup))

Set == SetWith(FALSE)

\* a call that is no event of the state machine: it leaves the mode alone
Call(name, h, hev, c, sn, dev, r) ==
    /\ op' = Op(name, mode, NoState)
    /\ trace' = h.tr
    /\ faults' = h.faults
    /\ err' = h.err
    /\ events' = hev
    /\ cache' = c
    /\ seen' = sn
    /\ device' = dev
    /\ ret' = r
    /\ UNCHANGED <<mode, sent_cmds, now>>
    /\ UNCHANGED txvars
    /\ UNCHANGED svars
    /\ UNCHANGED gvars

\* the answers to the SETs of the startup application followed after an
\* interruption: every SET accepted, or the first one timing out
StartupAnswersShort == {<<"ok", "ok", "ok">>, <<"Timeout">>}

\* apply_startup_params, called in any mode
ApplyStartupParams ==
    \E w0 \in WakeOut :
      \E stop \in (IF startup_state_ok(mode) /\ w0 # NoPrompt /\ logging_of(w0)
                   THEN StopIn ELSE {[b |-> "ok", u |-> "ok", w |-> PromptCOMMAND]}) :
       \E restart \in (IF startup_state_ok(mode) /\ w0 # NoPrompt /\ logging_of(w0)
                       THEN RestartIn ELSE {[w |-> PromptCOMMAND, cs |-> "ok"]}) :
        LET reached == /\ startup_state_ok(mode)
                       /\ w0 # NoPrompt
                       /\ stop_logging(stop.b, stop.u, stop.w).exc = NoExc
        IN \E xs \in (IF ~reached THEN {<<>>}
                     ELSE IF logging_of(w0) THEN StartupAnswersShort
                     ELSE SetAnswers(StartupKeys, TRUE)) :
            LET all == reached /\ SetAll(StartupKeys, xs, 1).exc = NoExc
                                  /\ Len(xs) = Len(StartupKeys)
            IN \E rf \in (IF all THEN RefreshesFor(TRUE) ELSE {NoRf}) :
                 LET reps == CanonReplies(device, rf.sc)
                 IN Call("apply_startup_params",
                         apply_startup_params(mode, w0, stop.b, stop.u, stop.w, xs,
                                              rf.w, rf.sc, restart.w, restart.cs),
                         IF all
                         THEN update_params_events(
                                  update_params(rf.w, rf.sc), cache,
                                  update_params_cache(cache, rf.w, rf.sc, reps, now))
                         ELSE <<>>,
                         IF all THEN update_params_cache(cache, rf.w, rf.sc, reps, now)
                         ELSE cache,
                         IF all THEN update_params_seen(rf.w, rf.sc, reps) ELSE <<>>,
                         device,
                         Ret("apply", {StartupKeys[i] : i \in DOMAIN StartupKeys},
                             <<>>, FALSE))

StartDirect ==
    /\ <<mode, "START_DIRECT">> \in Handlers
    /\ Do("START_DIRECT", handler_command_start_direct, NoRf.w, NoRf.sc)

StopDirect ==
    /\ <<mode, "STOP_DIRECT">> \in Handlers
    /\ \E rf \in EnterIn(handler_direct_access_stop_direct) :
          Do("STOP_DIRECT", handler_direct_access_stop_direct, rf.w, rf.sc)

\* _handler_direct_access_execute_direct with one of the payloads while the
\* list is shorter than n
ExecuteDirectUpTo(n, payloads) ==
    /\ <<mode, "EXECUTE_DIRECT">> \in Handlers
    /\ Len(sent_cmds) < n
    /\ \E data \in payloads :
          DoSent("EXECUTE_DIRECT", handler_direct_access_execute_direct(data),
                 NoRf.w, NoRf.sc, Append(sent_cmds, data))

\* in the mode machine one payload stands for all: no handler reads the list
ExecuteDirect == ExecuteDirectUpTo(MaxSent, {"a"})

\* an event without handler in the current mode: on_event raises
\* InstrumentStateException and nothing else happens
Rejected ==
    \E event \in ProtocolEvent :
        /\ <<mode, event>> \notin Handlers
        /\ op' = Op(event, mode, NoState)
        /\ trace' = <<>>
        /\ faults' = <<Fault("fsm", "State")>>
        /\ err' = Fault("fsm", "State")
        /\ events' = <<>>
        /\ ret' = NoRet
        /\ seen' = <<>>
        /\ UNCHANGED <<mode, sent_cmds, cache, now, device>>
        /\ UNCHANGED txvars
        /\ UNCHANGED svars
        /\ UNCHANGED gvars

Next ==
    \/ Discover
    \/ StartAutosample
    \/ StopAutosample
    \/ AutosampleGetCalibration
    \/ AutosampleGetConfiguration
    \/ AutosampleClockSync
    \/ CommandClockSync
    \/ CommandSimple
    \/ CommandSendLastSample
    \/ Get
    \/ Set
    \/ StartDirect
    \/ StopDirect
    \/ ExecuteDirect
    \/ ApplyStartupParams
    \/ Rejected

Spec == Init /\ [][Next]_vars

----------------------------------------------------------------------------
(* The parameter dictionary in COMMAND: GET and SET with every request and *)
(* reply followed, the dirtiness check, and the clock.                     *)

GetAny == GetWith(TRUE)

SetAny == SetWith(TRUE)

\* _instrument_config_dirty: a refresh, then the comparison
DirtyCheck ==
    \E rf \in Refreshes :
      \E reps \in RichReplies(device, rf.sc) :
        LET r == update_params(rf.w, rf.sc)
            c2 == update_params_cache(cache, rf.w, rf.sc, reps, now)
        IN Call("_instrument_config_dirty", Plain(NoState, r),
                update_params_events(r, cache, c2), c2,
                update_params_seen(rf.w, rf.sc, reps), device,
                Ret("dirty", {}, <<>>, r.exc = NoExc /\ instrument_config_dirty(c2)))

\* time passes
Tick ==
    /\ now < MaxClock
    /\ now' = now + 1
    /\ UNCHANGED <<cache, ret, seen, device>>
    /\ UNCHANGED opvars
    /\ UNCHANGED txvars
    /\ UNCHANGED svars
    /\ UNCHANGED gvars

\* COMMAND was entered and its refresh could not wake the instrument: the
\* dictionary is as built; the instrument holds one of two configurations
InitParams ==
    /\ mode = COMMAND
    /\ op = NoOp
    /\ trace = <<>>
    /\ faults = <<>>
    /\ err = NoErr
    /\ events = <<>>
    /\ sent_cmds = <<>>
    /\ TxInit
    /\ ParamInit
    /\ SieveInit
    /\ ParserInit
    /\ device \in {CanonDevice, [CanonDevice EXCEPT !["CI"] = <<5>>, !["CQ"] = <<2, 0, 0>>]}

NextParams ==
    \/ GetAny
    \/ DirtyCheck
    \/ Tick

SpecParams == InitParams /\ [][NextParams]_vars

\* SET alone, with every dict and every answer followed
SpecSet == InitParams /\ [][SetAny]_vars

----------------------------------------------------------------------------
(* One refresh, transaction by transaction.  The controller is in COMMAND; *)
(* _update_params issues its GETs through the executor while the scheduler *)
(* raises its events, whose handlers go through the same executor.         *)

\* what a response can look like to _parse_get_response:
\*   ends  it ends with the command prompt
\*   q     it holds the '?' of the echoed GET
\*   key   its last line names the parameter asked for
Resps == [ends : BOOLEAN, q : BOOLEAN, key : BOOLEAN]

\* the condition that ends the while loop of _parse_get_response
Terminated(r) == r.ends /\ r.q

Tx(owner, cmd, key) == [owner |-> owner, cmd |-> cmd, key |-> key]

\* the executor without its check of the slot
execute_no_busy(slot, owner, cmd, key) ==
    LET result == IF cmd \notin BuildHandlers THEN "Protocol" ELSE "pending"
        after == IF result = "pending" THEN Tx(owner, cmd, key) ELSE slot
    IN [by |-> owner, before |-> slot, after |-> after, result |-> result,
        sent |-> (result = "pending")]

\* the executor, up to the registration of the transaction: Busy when the
\* slot is taken; then the command is built and transmitted and the
\* transaction registered
execute(slot, owner, cmd, key) ==
    LET result == IF slot # NoTx THEN "Busy"
                  ELSE IF cmd \notin BuildHandlers THEN "Protocol"
                  ELSE "pending"
        after == IF result = "pending" THEN Tx(owner, cmd, key) ELSE slot
    IN [by |-> owner, before |-> slot, after |-> after, result |-> result,
        sent |-> (result = "pending")]

\* the command the COMMAND handler of a scheduled event hands to the executor
ScheduledCmd(ev) ==
    IF ev = "SCHEDULED_CLOCK_SYNC" THEN TIME ELSE SimpleCmd[ev]

\* _update_params begins: the wakeup
RefreshBegin ==
    /\ flow.pc = "idle"
    /\ \E w \in WakeOut :
          flow' = IF w = NoPrompt THEN Flow("failed", 0, "Timeout")
                  ELSE Flow("issue", 1, NoExc)
    /\ UNCHANGED <<pending, resp, sched, inflight, attempt>>
    /\ UNCHANGED opvars
    /\ UNCHANGED svars
    /\ UNCHANGED gvars
    /\ UNCHANGED pvars

\* the loop of _update_params hands the GET of its next key to the executor
RefreshIssue ==
    /\ flow.pc = "issue"
    /\ LET e == execute(pending, "refresh", GETcmd, UpdateKeys[flow.i])
       IN /\ attempt' = e
          /\ pending' = e.after
          /\ inflight' = IF e.sent THEN inflight + 1 ELSE inflight
          /\ flow' = IF e.result = "pending" THEN Flow("wait", flow.i, NoExc)
                     ELSE Flow("failed", flow.i, e.result)
    /\ UNCHANGED <<resp, sched>>
    /\ UNCHANGED opvars
    /\ UNCHANGED svars
    /\ UNCHANGED gvars
    /\ UNCHANGED pvars

\* the pending transaction resolves: a response, the error prompt, or its
\* deadline; the slot is cleared and the owner goes on
Resolve ==
    /\ pending # NoTx
    /\ pending' = NoTx
    /\ inflight' = inflight - 1
    /\ \E x \in CmdOut :
         \E r \in (IF x = "ok" /\ pending.owner = "refresh" THEN Resps ELSE {NoResp}) :
            IF pending.owner = "refresh"
            THEN /\ flow' = CASE x = "Timeout" -> Flow("failed", flow.i, "Timeout")
                              [] x = PromptERR -> Flow("failed", flow.i, "Protocol")
                              [] OTHER -> Flow("loop", flow.i, NoExc)
                 /\ resp' = r
                 /\ UNCHANGED sched
            ELSE /\ sched' = "idle"
                 /\ UNCHANGED <<flow, resp>>
    /\ UNCHANGED attempt
    /\ UNCHANGED opvars
    /\ UNCHANGED svars
    /\ UNCHANGED gvars
    /\ UNCHANGED pvars

\* one turn of the while loop of _parse_get_response: the response is not
\* terminated, _get_raw_response hands back what is there now or raises
ParseReread ==
    /\ flow.pc = "loop"
    /\ ~Terminated(resp)
    /\ \/ /\ flow' = Flow("failed", flow.i, "Timeout")
          /\ resp' = NoResp
       \/ /\ \E r \in Resps : resp' = r
          /\ UNCHANGED flow
    /\ UNCHANGED <<pending, sched, inflight, attempt>>
    /\ UNCHANGED opvars
    /\ UNCHANGED svars
    /\ UNCHANGED gvars
    /\ UNCHANGED pvars

\* _parse_get_response after its loop, and the step of _update_params to
\* the next key
ParseFinish ==
    /\ flow.pc = "loop"
    /\ Terminated(resp)
    /\ flow' = IF ~resp.key THEN Flow("failed", flow.i, "Parameter")
               ELSE IF flow.i = Len(UpdateKeys) THEN Flow("done", flow.i, NoExc)
               ELSE Flow("issue", flow.i + 1, NoExc)
    /\ resp' = NoResp
    /\ LET key == UpdateKeys[flow.i]
           lines == IF resp.key THEN <<Line(key, device[key], TRUE)>> ELSE <<>>
       IN /\ cache' = UpdateLines(cache, key, lines, 1, now)
          /\ seen' = lines
    /\ UNCHANGED <<now, ret, device>>
    /\ UNCHANGED <<pending, sched, inflight, attempt>>
    /\ UNCHANGED opvars
    /\ UNCHANGED svars
    /\ UNCHANGED gvars

\* _update_params returned or raised; the next refresh may begin
RefreshEnd ==
    /\ flow.pc \in {"done", "failed"}
    /\ flow' = Flow("idle", 0, NoExc)
    /\ UNCHANGED <<pending, resp, sched, inflight, attempt>>
    /\ UNCHANGED opvars
    /\ UNCHANGED svars
    /\ UNCHANGED gvars
    /\ UNCHANGED pvars

\* the scheduler raises one of its events; its COMMAND handler hands its
\* command to the executor
ScheduledFire ==
    /\ sched = "idle"
    /\ \E ev \in ScheduledJob :
          /\ <<mode, ev>> \in Handlers
          /\ LET e == execute(pending, "sched", ScheduledCmd(ev), "")
             IN /\ attempt' = e
                /\ pending' = e.after
                /\ inflight' = IF e.sent THEN inflight + 1 ELSE inflight
                /\ sched' = IF e.result = "pending" THEN "wait" ELSE "idle"
    /\ UNCHANGED <<flow, resp>>
    /\ UNCHANGED opvars
    /\ UNCHANGED svars
    /\ UNCHANGED gvars
    /\ UNCHANGED pvars

InitExec ==
    /\ mode = COMMAND
    /\ op = NoOp
    /\ trace = <<>>
    /\ faults = <<>>
    /\ err = NoErr
    /\ events = <<>>
    /\ sent_cmds = <<>>
    /\ TxInit
    /\ ParamInit
    /\ SieveInit
    /\ ParserInit
    /\ device = CanonDevice

RefreshStep ==
    \/ RefreshBegin
    \/ RefreshIssue
    \/ ParseReread
    \/ ParseFinish
    \/ RefreshEnd

NextExec ==
    \/ RefreshBegin
    \/ RefreshIssue
    \/ Resolve
    \/ ParseReread
    \/ ParseFinish
    \/ RefreshEnd
    \/ ScheduledFire

SpecExec == InitExec /\ [][NextExec]_vars

\* the controller's flow keeps running and every transaction has a
\* deadline, so a step of the refresh that can be taken is taken and a
\* pending transaction is resolved
LiveSpecExec ==
    InitExec /\ [][NextExec]_vars /\ WF_vars(RefreshStep) /\ WF_vars(Resolve)

----------------------------------------------------------------------------
(* Properties of the last operation *)

\* the last operation ran one of the three interrupt-and-restore handlers
IsInterruptOp ==
    /\ op.from = AUTOSAMPLE
    /\ op.ev \in {"GET_CALIBRATION", "GET_CONFIGURATION", "SCHEDULED_CLOCK_SYNC"}

\* the stop step or the operation raised
OrigFailed == faults # <<>> /\ faults[1].phase \in {"stop", "op"}

\* _start_logging raised
RestoreFailed == \E i \in DOMAIN faults : faults[i].phase = "restore"

\* _start_logging was called: its probe is in the trace, after every
\* interaction of the stop step and of the operation
RestartRan ==
    \E i \in DOMAIN trace :
        /\ trace[i].p = <<"_start_logging", "_is_logging">>
        /\ \A j \in DOMAIN trace :
              (trace[j].p = <<>> \/ trace[j].p[1] # "_start_logging") => j < i

\* what the caller of the operation is told: the one exception it raised
Reported == IF err = NoErr THEN {} ELSE {err}

\* C1: in each of the three autosample interrupt-and-restore handlers, when
\* the stop step or the operation fails, the restart step is still run, and
\* when the restart succeeds the failure surfaced is the original one
C1_RestartAlwaysRuns ==
    (IsInterruptOp /\ OrigFailed) =>
        /\ RestartRan
        /\ (~RestoreFailed => err = faults[1])

C1_Witness ==
    /\ IsInterruptOp /\ OrigFailed /\ RestartRan /\ ~RestoreFailed
    /\ op.ev = "GET_CALIBRATION"
    /\ err = Fault("op", "Timeout")
    /\ trace[Len(trace)].s = START_DEPLOYMENT

\* C2: when the operation fails and the restart then fails too, the caller
\* is told of both failures, the original one included
C2_BothFailuresReported ==
    (IsInterruptOp /\ OrigFailed /\ RestoreFailed) =>
        \A i \in DOMAIN faults : faults[i] \in Reported

\* the probe of _stop_logging came back with a prompt that says logging
StopProbeSaysLogging ==
    \E i \in DOMAIN trace :
        /\ trace[i].p = <<"_stop_logging", "_is_logging">>
        /\ trace[i].o \in Prompt \ {PromptCOMMAND}

\* the refresh of the command enter handler ran
RefreshRan == \E i \in DOMAIN trace : trace[i].p[1] = "_update_params"

\* C3: when the probe after the stop sequence still reports logging, stop
\* autosample fails with the failed-to-stop error, the mode stays
\* AUTOSAMPLE and the command enter handler does not run
C3_StopFailedKeepsAutosample ==
    (op.ev = "STOP_AUTOSAMPLE" /\ op.from = AUTOSAMPLE /\ StopProbeSaysLogging) =>
        /\ err = Fault("op", "Protocol")
        /\ mode = AUTOSAMPLE
        /\ events = <<>>
        /\ ~RefreshRan

C3_Witness ==
    /\ op.ev = "STOP_AUTOSAMPLE" /\ op.from = AUTOSAMPLE /\ StopProbeSaysLogging
    /\ Len(trace) = 3
    /\ trace[1].s = "break" /\ trace[1].o = "ok"
    /\ trace[2].s = "wakeup_until" /\ trace[2].o = "ok"
    /\ mode = AUTOSAMPLE

C5_IndeterminateFails ==
    (op.ev = "DISCOVER" /\ op.from = UNKNOWN /\ trace[1].o # PromptCOMMAND) =>
        /\ err = Fault("op", "Protocol")
        /\ mode = UNKNOWN

\* C6: the mode starts as UNKNOWN, and an event other than DISCOVER raised
\* in UNKNOWN is rejected by the state machine, reaches no handler and
\* leaves the mode UNKNOWN
C6_OnlyDiscoverLeavesUnknown ==
    /\ op = NoOp => mode = UNKNOWN
    /\ (op # NoOp /\ op.from = UNKNOWN /\ op.ev # "DISCOVER") =>
          /\ mode = UNKNOWN
          /\ op.ev \in ProtocolEvent => err = Fault("fsm", "State")
          /\ err # NoErr
          /\ trace = <<>>
          /\ events = <<>>

C6_Witness ==
    /\ op.from = UNKNOWN /\ op.ev = "START_DIRECT"
    /\ mode = UNKNOWN /\ err = Fault("fsm", "State")

\* the transition table of the specification
FixedTable ==
    {<<UNKNOWN, "DISCOVER", COMMAND>>, <<UNKNOWN, "DISCOVER", AUTOSAMPLE>>,
     <<COMMAND, "START_AUTOSAMPLE", AUTOSAMPLE>>,
     <<AUTOSAMPLE, "STOP_AUTOSAMPLE", COMMAND>>,
     <<COMMAND, "START_DIRECT", DIRECT_ACCESS>>,
     <<DIRECT_ACCESS, "STOP_DIRECT", COMMAND>>}

\* C7 as stated: every mode change is a transition of the fixed table
C7_OnlyFixedTable ==
    mode # op.from => <<op.from, op.ev, mode>> \in FixedTable

\* C7 amended: every mode change is a transition of the fixed table or
\* COMMAND to AUTOSAMPLE by DISCOVER, which is registered in COMMAND too
C7_FixedTableAndDiscover ==
    mode # op.from =>
        <<op.from, op.ev, mode>> \in FixedTable \cup {<<COMMAND, "DISCOVER", AUTOSAMPLE>>}

C7_Witness ==
    /\ op.from = COMMAND /\ op.ev = "DISCOVER" /\ mode = AUTOSAMPLE

\* the steps of start autosample, in order
StartSequence == <<SETcmd, SAVE_SETUP_TO_RAM, START_DEPLOYMENT>>

\* C8: start autosample sends SET of the time, save setup, start logging in
\* this order; a step is sent only when every step before it succeeded; a
\* failed step ends the sequence and leaves the mode COMMAND
C8_StartSequence ==
    (op.ev = "START_AUTOSAMPLE" /\ op.from = COMMAND) =>
        /\ Len(trace) \in 1..3
        /\ \A i \in DOMAIN trace : trace[i].s = StartSequence[i]
        /\ trace[1].a = TIME
        /\ \A i \in 1..(Len(trace) - 1) : trace[i].o = "ok"
        /\ trace[Len(trace)].o # "ok" => (err # NoErr /\ mode = COMMAND)
        /\ mode = AUTOSAMPLE <=> (Len(trace) = 3 /\ trace[3].o = "ok")
        /\ mode \in {COMMAND, AUTOSAMPLE}

C8_Witness ==
    /\ op.ev = "START_AUTOSAMPLE" /\ op.from = COMMAND
    /\ Len(trace) = 2 /\ trace[2].o = "Timeout"
    /\ mode = COMMAND /\ err = Fault("op", "Timeout")

\* C9: at most one transaction is in flight; a call of the executor while
\* a transaction is pending fails with Busy, transmits nothing and leaves
\* the slot to the pending transaction
C9_SingleFlight ==
    /\ inflight <= 1
    /\ (pending = NoTx) <=> (inflight = 0)
    /\ attempt.before # NoTx =>
          /\ attempt.result = "Busy"
          /\ ~attempt.sent
          /\ attempt.after = attempt.before

C9_Witness ==
    /\ attempt.by = "sched" /\ attempt.result = "Busy"
    /\ attempt.before.owner = "refresh"
    /\ flow.pc = "wait" /\ pending = attempt.before
    /\ sched = "idle" /\ inflight = 1

\* C10: a GET that entered the re-read loop of its response handler
\* comes to an end, with a result or with a failure
C10_GetReturns ==
    (flow.pc = "loop") ~> (flow.pc \in {"issue", "done", "failed"})

----------------------------------------------------------------------------
(* Properties of the parameter dictionary *)

\* a step made inside _update_params
InRefresh(st) == \E n \in DOMAIN st.p : st.p[n] = "_update_params"

\* the GETs and the SETs of the last operation, in the order sent
IsGet(st) == st.s = GETcmd
IsSet(st) == st.s = SETcmd
Gets == SelectSeq(trace, IsGet)
Sets == SelectSeq(trace, IsSet)

\* a key the dict of the last SET may not set
LockedKey(k, startup) ==
    \/ Visibility[k] = "READ_ONLY"
    \/ Visibility[k] = "IMMUTABLE" /\ ~startup

\* C11: a SET whose dict holds a read-only key, or an immutable key outside
\* of startup, fails with the parameter exception before anything is sent:
\* no SET and no other command for any key, the dictionary and the
\* instrument as they were
C11_ReadOnlyBeforeIO ==
    [][(ret'.kind = "set" /\ \E k \in ret'.keys : LockedKey(k, ret'.flag))
          => /\ err' = Fault("op", "Parameter")
             /\ trace' = <<>>
             /\ cache' = cache
             /\ device' = device]_vars

C11_Witness ==
    /\ ret.kind = "set" /\ ret.keys = {"CI", "TT"}
    /\ err = Fault("op", "Parameter") /\ trace = <<>>

\* the last well-formed line of parameter k among the lines seen
LastLine(k) ==
    LET I == {i \in DOMAIN seen : seen[i].key = k /\ seen[i].well}
    IN IF I = {} THEN 0 ELSE CHOOSE i \in I : \A j \in I : j <= i

\* C12: a SET of settable parameters that returns without exception sent
\* one SET per key and then ran a refresh (wakeup and GETs after the last
\* SET); every key of the dict whose line the refresh read holds the value
\* of that line, stamped with the time of the operation
C12_SetThenRefresh ==
    (ret.kind = "set" /\ err = NoErr) =>
        /\ Len(Sets) = Cardinality(ret.keys)
        /\ \E i \in DOMAIN trace :
              /\ InRefresh(trace[i]) /\ trace[i].s = "wakeup"
              /\ \A j \in DOMAIN trace : IsSet(trace[j]) => j < i
              /\ \A j \in DOMAIN trace : IsGet(trace[j]) => j > i
        /\ [n \in DOMAIN Gets |-> Gets[n].a] = UpdateKeys
        /\ \A k \in ret.keys :
              LastLine(k) # 0 =>
                 /\ cache[k].set
                 /\ cache[k].val = parse_value(k, seen[LastLine(k)].digits)
                 /\ cache[k].ts = ret.at

C12_Witness ==
    /\ ret.kind = "set" /\ err = NoErr /\ ret.keys = {"CI"}
    /\ LastLine("CI") # 0
    /\ cache["CI"].val # ret.vals["CI"]
    /\ cache["CI"].val = parse_value("CI", device["CI"])

\* an operation whose refresh came past its wakeup
RefreshStarted ==
    \E i \in DOMAIN trace : InRefresh(trace[i]) /\ trace[i].s = "wakeup"
                            /\ trace[i].o # NoPrompt

\* C13: a refresh in which the GET of one parameter failed goes on: a GET
\* goes out for every parameter declared after the one that failed
C13_RefreshContinues ==
    \A n \in DOMAIN Gets :
        (InRefresh(Gets[n]) /\ Gets[n].o # "ok") =>
            \A m \in (n + 1)..Len(UpdateKeys) :
                m \in DOMAIN Gets /\ Gets[m].a = UpdateKeys[m]

\* C14: a refresh that came past its wakeup sends a GET for every declared
\* parameter, none left out, one after the other in the order of the
\* declarations, each one answered before the next goes out
C14_SequentialGets ==
    RefreshStarted =>
        /\ \A n \in DOMAIN Gets :
              /\ InRefresh(Gets[n])
              /\ n <= Len(UpdateKeys) /\ Gets[n].a = UpdateKeys[n]
              /\ n < Len(Gets) => Gets[n].o = "ok"
        /\ \A k \in ParamKeys : \E n \in DOMAIN Gets : Gets[n].a = k

\* C15: a GET that returns values returns none that was expired at the time
\* of the call; it refreshes at most once, and when a value asked for is
\* still expired after the refresh it raises the expiration and returns
\* nothing
C15_NoStaleValue ==
    ret.kind = "get" =>
        /\ ret.flag <=> err = NoErr
        /\ ret.flag => \A k \in ret.keys : ~(ret.vals[k].ts + MaxAge < ret.at)
        /\ ~ret.flag => ret.vals = <<>>
        /\ Cardinality({i \in DOMAIN trace :
                           InRefresh(trace[i]) /\ trace[i].s = "wakeup"}) <= 1

C15_Witness ==
    /\ ret.kind = "get" /\ err = Fault("op", "Expired")
    /\ Len(Gets) = Len(UpdateKeys)
    /\ \E k \in ret.keys : cache[k].ts + MaxAge < ret.at

\* C16: every well-formed line handed to the dictionary updates the
\* parameter it belongs to, also when it came in the response to the GET of
\* another parameter: that parameter is set, stamped with the time of the
\* operation, and holds the value of the last such line
C16_AnyLineUpdates ==
    \A i \in DOMAIN seen :
        seen[i].well =>
            /\ cache[seen[i].key].set
            /\ cache[seen[i].key].ts = ret.at
            /\ cache[seen[i].key].val
                   = parse_value(seen[i].key, seen[LastLine(seen[i].key)].digits)

C16_Witness ==
    /\ ret.kind = "get" /\ err = Fault("op", "Parameter")
    /\ Len(Gets) = 1 /\ Gets[1].a = "CI"
    /\ Len(seen) = 1 /\ seen[1].key # "CI" /\ seen[1].well
    /\ cache[seen[1].key].set /\ cache[seen[1].key].ts = ret.at
    /\ ret.at > 0

\* the numbers that the digits of the lines stand for
Decimal(d) ==
    CASE d = <<0>> -> 0
      [] d = <<5>> -> 5
      [] d = <<2, 0, 0>> -> 200
      [] d = <<2, 5, 5>> -> 255

\* C17: after a GET answered with a line that matches the pattern of an
\* integer parameter (CI = 5), the dictionary holds for that parameter the
\* number the digits stand for (5), with a timestamp not earlier than the
\* start of the operation
C17_ParsedValueCached ==
    \A k \in {"CI", "CQ"} :
        LastLine(k) # 0 =>
            /\ cache[k].set
            /\ cache[k].val = Decimal(seen[LastLine(k)].digits)
            /\ cache[k].ts >= ret.at

C17_Witness ==
    /\ ret.kind = "get" /\ ret.keys = {"CI"} /\ err = NoErr
    /\ LastLine("CI") # 0 /\ seen[LastLine("CI")].digits = <<5>>
    /\ cache["CI"] = Entry(TRUE, 5, ret.at) /\ ret.at > 0
    /\ ret.vals["CI"].val = 5

\* a startup parameter whose cached value is not its configured value
Differs(k) == StartupParam[k] /\ (~cache[k].set \/ cache[k].val # DefaultValue[k])

\* C18: the dirtiness check that ran its refresh to the end returns true
\* exactly when a startup parameter differs from its configured value;
\* parameters without the startup flag have no part in it
C18_DirtyIffStartupDiffers ==
    (ret.kind = "dirty" /\ err = NoErr) =>
        (ret.flag <=> \E k \in ParamKeys : Differs(k))

C18_Witness ==
    /\ ret.kind = "dirty" /\ err = NoErr /\ ~ret.flag
    /\ cache["TT"].set /\ cache["TT"].val # DefaultValue["TT"]
    /\ \A k \in ParamKeys : cache[k].set

\* C19: the startup application called in UNKNOWN or DIRECT_ACCESS raises
\* the protocol exception of its state check before any interaction with
\* the instrument, and the mode stays what it was
C19_StartupInvalidMode ==
    (op.ev = "apply_startup_params" /\ op.from \in {UNKNOWN, DIRECT_ACCESS}) =>
        /\ err = Fault("state", "Protocol")
        /\ trace = <<>>
        /\ mode = op.from

C19_Witness ==
    /\ op.ev = "apply_startup_params" /\ op.from = DIRECT_ACCESS
    /\ err = Fault("state", "Protocol") /\ trace = <<>> /\ mode = DIRECT_ACCESS

\* the probe that opens apply_startup_params found the instrument logging
StartupProbeSaysLogging ==
    /\ trace # <<>>
    /\ trace[1].p = <<"_is_logging">>
    /\ trace[1].o \in Prompt \ {PromptCOMMAND}

\* C20: when the startup application called in AUTOSAMPLE on a logging
\* instrument fails in its stop step or while applying, the restart is
\* attempted and that failure is what the caller gets
C20_ApplyFailureReraised ==
    (/\ op.ev = "apply_startup_params" /\ op.from = AUTOSAMPLE
     /\ StartupProbeSaysLogging /\ OrigFailed) =>
        /\ RestartRan
        /\ err = faults[1]

----------------------------------------------------------------------------
(* Properties of the startup application and of the enter handlers *)

\* the instrument holds the configured value of every startup parameter
DeviceClean ==
    \A i \in DOMAIN StartupKeys :
        parse_value(StartupKeys[i], device[StartupKeys[i]]) = DefaultValue[StartupKeys[i]]

\* C21: the startup application called in COMMAND or AUTOSAMPLE on an
\* instrument whose startup parameters all hold their configured values does
\* nothing: no break is sent and no SET
C21_CleanDoesNothing ==
    (op.ev = "apply_startup_params" /\ op.from \in {COMMAND, AUTOSAMPLE}
                                    /\ DeviceClean) =>
        /\ Sets = <<>>
        /\ \A i \in DOMAIN trace : trace[i].s # "break"

\* the state change events among the driver events of the last operation
StateChanges == SelectSeq(events, LAMBDA e : e = STATE_CHANGE)

\* the last operation entered COMMAND
EnteredCommand == op # NoOp /\ op.next = COMMAND

\* the GETs of the refresh went out for every key and were all answered
RefreshComplete ==
    /\ [n \in DOMAIN Gets |-> Gets[n].a] = UpdateKeys
    /\ \A n \in DOMAIN Gets : InRefresh(Gets[n]) /\ Gets[n].o = "ok"

\* C22 as stated: every entry into COMMAND runs the refresh to its end and
\* emits one state change event
C22_EveryEntryNotifies ==
    EnteredCommand => (RefreshComplete /\ StateChanges = <<STATE_CHANGE>>)

\* C22 amended: every entry into COMMAND runs the refresh after the steps of
\* the handler; when the refresh ran to its end, one state change event is
\* emitted and the dictionary holds what the instrument reports, stamped
\* with the time of the entry; when the refresh raised, the exception
\* leaves the transition and no event is emitted
C22_NotifiedAfterRefresh ==
    EnteredCommand =>
        /\ mode = COMMAND
        /\ \E i \in DOMAIN trace :
              /\ InRefresh(trace[i]) /\ trace[i].s = "wakeup"
              /\ \A j \in DOMAIN trace : InRefresh(trace[j]) <=> j >= i
        /\ IF err = NoErr
           THEN /\ StateChanges = <<STATE_CHANGE>>
                /\ events[Len(events)] = STATE_CHANGE
                /\ RefreshComplete
                /\ \A k \in ParamKeys :
                      cache[k] = Entry(TRUE, parse_value(k, device[k]), now)
           ELSE /\ events = <<>>
                /\ err.phase = "enter"
                /\ ~RefreshComplete

C22_Witness ==
    /\ EnteredCommand /\ op.ev = "STOP_AUTOSAMPLE"
    /\ err = NoErr /\ events = <<STATE_CHANGE>>
    /\ RefreshComplete
    /\ trace[1].s = "break"

\* C23: an operation that enters AUTOSAMPLE emits the state change event
\* and nothing else on entry: the device interactions are those of the
\* handler alone (the probe of discover, the three steps of start
\* autosample), none of a refresh, and the dictionary is as it was
C23_AutosampleEntryOnlyNotifies ==
    [][(op'.next = AUTOSAMPLE) =>
          /\ mode' = AUTOSAMPLE
          /\ events' = <<STATE_CHANGE>>
          /\ err' = NoErr
          /\ cache' = cache
          /\ \A i \in DOMAIN trace' : ~InRefresh(trace'[i])
          /\ op'.ev = "DISCOVER" =>
                (Len(trace') = 1 /\ trace'[1].p = <<"_is_logging">>)
          /\ op'.ev = "START_AUTOSAMPLE" =>
                (Len(trace') = 3 /\ \A i \in 1..3 : trace'[i].s = StartSequence[i])
          /\ op'.ev \in {"DISCOVER", "START_AUTOSAMPLE"}]_vars

C23_Witness ==
    /\ op.next = AUTOSAMPLE /\ op.ev = "START_AUTOSAMPLE"
    /\ mode = AUTOSAMPLE /\ events = <<STATE_CHANGE>>
    /\ Len(trace) = 3
    /\ \A k \in ParamKeys : cache[k].set

----------------------------------------------------------------------------
(* Direct access sessions: COMMAND, DIRECT_ACCESS and back, any number of
   times *)

ExecuteDirectMore == ExecuteDirectUpTo(MaxDirect, RawData)

NextDirect == StartDirect \/ ExecuteDirectMore \/ StopDirect \/ Rejected

SpecDirect == InitExec /\ [][NextDirect]_vars

C25_AcceptedInBothModes ==
    (/\ op.from \in {COMMAND, AUTOSAMPLE}
     /\ op.ev \in {"GET_CALIBRATION", "GET_CONFIGURATION",
                   "CLOCK_SYNC", "SCHEDULED_CLOCK_SYNC"}) =>
        /\ <<op.from, op.ev>> \in Handlers
        /\ err # Fault("fsm", "State")
        /\ op.from = AUTOSAMPLE => trace # <<>>

----------------------------------------------------------------------------
(* The frame sieve and the receive path *)

\* the byte of the sync marker, \x7f
SYNC == 127
\* a position of a pattern that any byte matches (. with re.DOTALL)
ANY == -1

\* the bytes followed: the sync byte, two length bytes, and the letters of
\* the two ASCII blocks
Bytes == {0, 4, 99, 101, 107, SYNC}

\* re.compile(r'\x7f\x7f(..)', re.DOTALL): the marker and the two bytes of
\* the length
PD0_HEADER == <<SYNC, SYNC, ANY, ANY>>
\* the patterns of the two ASCII matchers stand for the blocks "ce" and "ke"
ADCP_SYSTEM_CONFIGURATION_REGEX == <<99, 101>>
ADCP_COMPASS_CALIBRATION_REGEX == <<107, 101>>

\* pat matches raw at offset s (offsets count from 0, as in Python)
MatchAt(raw, s, pat) ==
    /\ s + Len(pat) <= Len(raw)
    /\ \A j \in DOMAIN pat : pat[j] = ANY \/ raw[s + j] = pat[j]

RECURSIVE finditer(_, _, _)
\* matcher.finditer(raw, s): the offsets of the matches of pat from offset s
\* on, leftmost first, none overlapping the one before
finditer(raw, s, pat) ==
    IF s + Len(pat) > Len(raw) THEN <<>>
    ELSE IF MatchAt(raw, s, pat)
         THEN <<s>> \o finditer(raw, s + Len(pat), pat)
         ELSE finditer(raw, s + 1, pat)

\* unpack("H", match.group(1)) for the header match at offset s: the two
\* bytes after the marker, low byte first
unpack_H(raw, s) == raw[s + 3] + 256 * raw[s + 4]

RECURSIVE pd0_ranges_unchecked(_, _, _)
\* ranges taken from the length alone, whatever the buffer holds
pd0_ranges_unchecked(raw, starts, i) ==
    IF i > Len(starts) THEN <<>>
    ELSE <<<<starts[i], starts[i] + 2 + unpack_H(raw, starts[i])>>>>
             \o pd0_ranges_unchecked(raw, starts, i + 1)

RECURSIVE pd0_ranges(_, _, _)
\* the loop over the header matches from the i-th on: the true matcher
\* \x7f\x7f(.{l}) is searched from the header on, and its match counts when
\* it starts where the header starts, which it does exactly when l bytes
\* follow the marker
pd0_ranges(raw, starts, i) ==
    IF i > Len(starts) THEN <<>>
    ELSE LET outer_pos == starts[i]
             l == unpack_H(raw, outer_pos)
         IN (IF outer_pos + 2 + l <= Len(raw)
             THEN <<<<outer_pos, outer_pos + 2 + l>>>> ELSE <<>>)
                \o pd0_ranges(raw, starts, i + 1)

\* the loop of an ASCII matcher: every match is a range
block_ranges(raw, pat) ==
    LET starts == finditer(raw, 0, pat)
    IN [i \in DOMAIN starts |-> <<starts[i], starts[i] + Len(pat)>>]

\* sieve_function: the ranges of the three matchers, one matcher after the
\* other
sieve_function(raw) ==
    pd0_ranges(raw, finditer(raw, 0, PD0_HEADER), 1)
        \o block_ranges(raw, ADCP_SYSTEM_CONFIGURATION_REGEX)
        \o block_ranges(raw, ADCP_COMPASS_CALIBRATION_REGEX)

\* _extract_sample: the particle is published when the matcher matches the
\* chunk from its first byte
extract_sample(particle, pat, chunk) ==
    IF MatchAt(chunk, 0, pat) THEN <<particle>> ELSE <<>>

\* a second call that uses the matcher of the first
got_chunk_same_matcher(chunk) ==
    extract_sample("ADCP_PD0_PARSED", PD0_HEADER, chunk)
        \o extract_sample("ADCP_SYSTEM_CONFIGURATION", PD0_HEADER, chunk)
        \o extract_sample("ADCP_COMPASS_CALIBRATION",
                          ADCP_COMPASS_CALIBRATION_REGEX, chunk)

\* _got_chunk: the three calls of _extract_sample, the particles published
got_chunk(chunk) ==
    extract_sample("ADCP_PD0_PARSED", PD0_HEADER, chunk)
        \o extract_sample("ADCP_SYSTEM_CONFIGURATION",
                          ADCP_SYSTEM_CONFIGURATION_REGEX, chunk)
        \o extract_sample("ADCP_COMPASS_CALIBRATION",
                          ADCP_COMPASS_CALIBRATION_REGEX, chunk)

\* longest buffer followed
MaxBuf == 8

\* the pieces in which the bytes arrive
Fragments ==
    {<<SYNC, SYNC>>, <<0, 0>>, <<4, 0>>, <<99, 101>>, <<107, 101>>, <<0>>}

\* what a pending transaction waits for: nothing, or one of the blocks
Expected ==
    {<<>>, ADCP_SYSTEM_CONFIGURATION_REGEX, ADCP_COMPASS_CALIBRATION_REGEX}

\* the range the chunker hands out first: the one that starts first
FirstRange(rs) ==
    CHOOSE i \in DOMAIN rs :
        \A j \in DOMAIN rs :
            rs[i][1] < rs[j][1] \/ (rs[i][1] = rs[j][1] /\ i <= j)

\* got_data: the bytes are added to the buffer and the sieve runs over it
GotData ==
    \E frag \in Fragments :
        /\ Len(buf) + Len(frag) <= MaxBuf
        /\ buf' = buf \o frag
        /\ ranges' = sieve_function(buf')
        /\ routed' = NoRouted
        /\ UNCHANGED opvars
        /\ UNCHANGED txvars
        /\ UNCHANGED pvars
        /\ UNCHANGED gvars

\* the chunker hands out the first chunk and drops the bytes up to its end;
\* the chunk goes to the pending transaction when it is what that one waits
\* for, to _got_chunk otherwise
GotChunk ==
    /\ ranges # <<>>
    /\ \E expected \in Expected :
        LET r == ranges[FirstRange(ranges)]
            chunk == SubSeq(buf, r[1] + 1, r[2])
            mine == expected # <<>> /\ MatchAt(chunk, 0, expected)
        IN /\ buf' = SubSeq(buf, r[2] + 1, Len(buf))
           /\ ranges' = sieve_function(buf')
           /\ routed' = [chunk |-> chunk,
                         to |-> IF mine THEN "transaction" ELSE "classifier",
                         samples |-> IF mine THEN <<>> ELSE got_chunk(chunk)]
    /\ UNCHANGED opvars
    /\ UNCHANGED txvars
    /\ UNCHANGED pvars
    /\ UNCHANGED gvars

NextSieve == GotData \/ GotChunk

SpecSieve == Init /\ [][NextSieve]_vars

----------------------------------------------------------------------------
(* Properties of the sieve and of the receive path *)

\* a sync marker begins at offset p of b
MarkerAt(b, p) == MatchAt(b, p, <<SYNC, SYNC>>)

\* the length bytes after the marker at offset p are in b, and as many
\* bytes as they say follow the marker
Complete(b, p) ==
    /\ MatchAt(b, p, PD0_HEADER)
    /\ p + 2 + unpack_H(b, p) <= Len(b)

\* the buffer begins with a record whose length covers its header and whose
\* end is followed by the marker of the next record
WellFormedRecord(b) ==
    /\ MatchAt(b, 0, PD0_HEADER)
    /\ unpack_H(b, 0) >= Len(PD0_HEADER)
    /\ MarkerAt(b, unpack_H(b, 0))

\* C26: when the buffer begins with a well-formed binary record, the sieve
\* reports that record as the range (start, start + length), and every
\* range it reports at a marker has the marker again at start + length and
\* ends there.
C26_TrailingMarkerChecked ==
    WellFormedRecord(buf) =>
        /\ \E i \in DOMAIN ranges : ranges[i] = <<0, unpack_H(buf, 0)>>
        /\ \A i \in DOMAIN ranges :
               MarkerAt(buf, ranges[i][1]) =>
                   /\ MarkerAt(buf, ranges[i][1] + unpack_H(buf, ranges[i][1]))
                   /\ ranges[i][2] = ranges[i][1] + unpack_H(buf, ranges[i][1])

\* C27: the ranges the sieve returns ascend by start and no two of them
\* overlap, whichever matchers they come from.
C27_AscendingDisjoint ==
    \A i, j \in DOMAIN ranges :
        i < j => ranges[i][1] < ranges[j][1] /\ ranges[i][2] <= ranges[j][1]

\* a sync marker begins in the three bytes before offset p, so that a header
\* match there takes the bytes at p as its length or as its own marker
Overlapped(b, p) ==
    \E q \in {p - 3, p - 2, p - 1} : q >= 0 /\ MarkerAt(b, q)

----------------------------------------------------------------------------
(* Properties of the notifications, of the rejected responses and of the   *)
(* interrupt-and-restore steps                                              *)

\* the config change events among the driver events ev
ConfigChanges(ev) == SelectSeq(ev, LAMBDA e : e = CONFIG_CHANGE)

\* C31: an operation that ran a refresh emits the config change event
\* exactly when the configuration of the dictionary after it differs from
\* the one before it: one event when it differs, none when it does not.
C31_ConfigChangeIffDiffers ==
    [][(\E i \in DOMAIN trace' : InRefresh(trace'[i])) =>
          ConfigChanges(events') =
              IF get_config(cache') # get_config(cache)
              THEN <<CONFIG_CHANGE>> ELSE <<>>]_vars

\* a SET of the step was answered with the error prompt or with a response
\* that holds ' ERR'
SetRejected(st) == IsSet(st) /\ st.o \in {PromptERR, ErrText}
\* a GET of the step was answered with the error prompt
GetRejected(st) == IsGet(st) /\ st.o = PromptERR

\* C32: an operation with a SET or a GET that the instrument answered with
\* its error prompt (a SET also: with a response that holds ' ERR') fails:
\* the response handler raises (the parameter exception for SET, the
\* protocol exception for GET), nothing is sent after that step but the
\* restart of a finally block, no line of the response reaches the
\* dictionary, and the dictionary is as it was before the operation (a
\* rejected GET is the first GET of its refresh in the runs followed).
C32_ErrPromptFails ==
    [][\A i \in DOMAIN trace' :
          (SetRejected(trace'[i]) \/ GetRejected(trace'[i])) =>
              /\ err' # NoErr
              /\ \E f \in DOMAIN faults' :
                     faults'[f].kind =
                         IF IsSet(trace'[i]) THEN "Parameter" ELSE "Protocol"
              /\ \A j \in DOMAIN trace' :
                     j > i => trace'[j].p[1] = "_start_logging"
              /\ seen' = <<>>
              /\ cache' = cache
              /\ ret'.kind = "get" => ret'.vals = <<>>]_vars

\* C32 witness: a SET of a filled dictionary was answered with the command
\* prompt after a response that holds ' ERR', and failed.
C32_Witness ==
    /\ op.ev = "SET" /\ Len(trace) = 1 /\ trace[1].o = ErrText
    /\ err = Fault("op", "Parameter")
    /\ \A k \in ParamKeys : cache[k].set

\* the steps of the last operation made inside _stop_logging, in order
StopSteps == SelectSeq(trace, LAMBDA st : st.p[1] = "_stop_logging")

\* the order of _stop_logging: the break, the wait for the command prompt,
\* the probe
StopSequence == <<"break", "wakeup_until", "wakeup">>

\* C33: stop autosample begins with the break, then waits for the command
\* prompt, then probes; when the wait runs into its deadline the operation
\* fails with the timeout, no probe is made, nothing else is sent, no state
\* is entered and the mode is still AUTOSAMPLE.
C33_StopSequence ==
    (op.ev = "STOP_AUTOSAMPLE" /\ op.from = AUTOSAMPLE) =>
        /\ StopSteps # <<>>
        /\ \A i \in DOMAIN StopSteps : StopSteps[i].s = StopSequence[i]
        /\ \A i \in DOMAIN StopSteps : trace[i] = StopSteps[i]
        /\ (\E i \in DOMAIN trace :
                trace[i].s = "wakeup_until" /\ trace[i].o = "Timeout") =>
               /\ err = Fault("op", "Timeout")
               /\ Len(trace) = 2
               /\ \A i \in DOMAIN trace : trace[i].s # "wakeup"
               /\ mode = AUTOSAMPLE
               /\ op.next = NoState
               /\ events = <<>>

\* C33 witness: the break went out and the command prompt did not come.
C33_Witness ==
    /\ op.ev = "STOP_AUTOSAMPLE" /\ op.from = AUTOSAMPLE
    /\ Len(trace) = 2
    /\ trace[1].s = "break" /\ trace[1].o = "ok"
    /\ trace[2].s = "wakeup_until" /\ trace[2].o = "Timeout"
    /\ mode = AUTOSAMPLE

\* the events with an interrupt-and-restore handler in AUTOSAMPLE
InterruptEvents == {"GET_CALIBRATION", "GET_CONFIGURATION", "SCHEDULED_CLOCK_SYNC"}

InProc(st, name) == \E n \in DOMAIN st.p : st.p[n] = name

\* the steps of the last operation made inside _start_logging, in order
RestartSteps == SelectSeq(trace, LAMBDA st : InProc(st, "_start_logging"))

\* C35: the restart step begins with the probe; the start command follows
\* exactly when the probe found the command prompt; when the probe found
\* the instrument logging nothing more is sent and the step raises nothing.
C35_RestartProbesFirst ==
    RestartSteps # <<>> =>
        /\ RestartSteps[1].s = "wakeup"
        /\ InProc(RestartSteps[1], "_is_logging")
        /\ Len(RestartSteps) <= 2
        /\ Len(RestartSteps) = 2 <=> RestartSteps[1].o = PromptCOMMAND
        /\ Len(RestartSteps) = 2 =>
               /\ RestartSteps[2].s = START_DEPLOYMENT
               /\ ~InProc(RestartSteps[2], "_is_logging")
        /\ RestartSteps[1].o \in Prompt \ {PromptCOMMAND} =>
               /\ \A f \in DOMAIN faults : faults[f].phase # "restore"
               /\ trace[Len(trace)] = RestartSteps[1]

\* C35 witness: the stop step failed, the probe of the restart found the
\* instrument logging, no start command was sent and the failure of the
\* stop step is what the caller gets.
C35_Witness ==
    /\ op.from = AUTOSAMPLE /\ op.ev = "GET_CONFIGURATION"
    /\ Len(trace) = 3
    /\ trace[2].s = "wakeup_until" /\ trace[2].o = "Timeout"
    /\ RestartSteps = <<trace[3]>> /\ trace[3].o = PromptERR
    /\ err = Fault("stop", "Timeout")

\* the SETs among the steps tr, in the order sent
SetsOf(tr) == SelectSeq(tr, IsSet)

\* C36: a SET whose dict passes the read-only check sends one SET per key,
\* each for another key of the dict and each after the one before was
\* accepted, before anything else; when a SET fails it is the last step of
\* the operation (no SET for the keys left, no refresh), the operation
\* raises, no event is emitted and the dictionary is as it was, also for
\* the keys the instrument has already taken; the refresh starts only
\* after the SET of every key was accepted.
C36_SetsStopAtFirstFailure ==
    [][(ret'.kind = "set" /\ SetsOf(trace') # <<>>) =>
          LET S == SetsOf(trace')
              n == Cardinality(ret'.keys)
          IN /\ Len(S) <= n
             /\ \A i \in DOMAIN S : trace'[i] = S[i] /\ S[i].a \in ret'.keys
             /\ \A i, j \in DOMAIN S : i # j => S[i].a # S[j].a
             /\ \A i \in 1..(Len(S) - 1) : S[i].o = "ok"
             /\ IF S[Len(S)].o # "ok"
                THEN /\ Len(trace') = Len(S)
                     /\ err' # NoErr /\ err'.phase = "op"
                     /\ events' = <<>>
                     /\ cache' = cache
                ELSE /\ Len(S) = n
                     /\ Len(trace') > n
                     /\ InRefresh(trace'[n + 1]) /\ trace'[n + 1].s = "wakeup"]_vars

\* C36 witness: of a dict of two keys the instrument took the first and
\* refused the second; it holds the new value of the first, the dictionary
\* the old one.
C36_Witness ==
    /\ ret.kind = "set" /\ ret.keys = {"CI", "CQ"}
    /\ Len(trace) = 2
    /\ trace[1].a = "CI" /\ trace[1].o = "ok"
    /\ trace[2].a = "CQ" /\ trace[2].o = PromptERR
    /\ err = Fault("op", "Parameter")
    /\ cache["CI"].set
    /\ ret.vals["CI"] = parse_value("CI", device["CI"])
    /\ cache["CI"].val # parse_value("CI", device["CI"])

----------------------------------------------------------------------------
(* GET while the instrument logs: DISCOVER found the instrument logging,   *)
(* the mode is AUTOSAMPLE and the dictionary is as built; GET is raised    *)
(* while time passes.                                                      *)

InitAuto ==
    /\ mode = AUTOSAMPLE
    /\ op = NoOp
    /\ trace = <<>>
    /\ faults = <<>>
    /\ err = NoErr
    /\ events = <<>>
    /\ sent_cmds = <<>>
    /\ TxInit
    /\ ParamInit
    /\ SieveInit
    /\ ParserInit
    /\ device \in {CanonDevice, [CanonDevice EXCEPT !["CI"] = <<5>>, !["CQ"] = <<2, 0, 0>>]}

NextAuto ==
    \/ GetAny
    \/ Tick

SpecAutoGet == InitAuto /\ [][NextAuto]_vars

\* the GETs among the steps tr, in the order sent
GetsOf(tr) == SelectSeq(tr, IsGet)

\* C37: a GET raised in AUTOSAMPLE (a step that is not the passing of time)
\* for a key whose cached value is expired runs the refresh and nothing else: the first step is the wakeup of
\* _update_params, the GETs follow in the order of the declarations up to
\* the last key or to the first GET that raises, no break, no wait for the
\* command prompt and no start command is sent, no state is entered and the
\* mode is AUTOSAMPLE after the call, whether it returned or raised.
C37_AutosampleGetRefreshes ==
    [][(op'.ev = "GET" /\ mode = AUTOSAMPLE /\ now' = now
           /\ \E k \in ret'.keys : IsExpired(cache, k, now)) =>
          /\ mode' = AUTOSAMPLE
          /\ op'.next = NoState
          /\ \A i \in DOMAIN events' : events'[i] # STATE_CHANGE
          /\ trace' # <<>>
          /\ trace'[1].s = "wakeup" /\ trace'[1].p = <<"_update_params">>
          /\ \A i \in DOMAIN trace' :
                /\ InRefresh(trace'[i])
                /\ trace'[i].s \notin {"break", "wakeup_until", START_DEPLOYMENT}
                /\ i > 1 => trace'[i].s \in {GETcmd, "get_raw_response"}
          /\ LET G == GetsOf(trace')
             IN /\ \A n \in DOMAIN G : G[n].a = UpdateKeys[n]
                /\ trace'[1].o # NoPrompt => G # <<>>
                /\ (err' = NoErr \/ err'.kind = "Expired") => Len(G) = Len(UpdateKeys)
                /\ Len(G) < Len(UpdateKeys) =>
                       (err'.phase = "op" /\ err'.kind \notin {NoExc, "Expired"})]_vars

\* C37 witness: the instrument logs, a value of the dictionary is older
\* than the call, and the GET woke the instrument and asked for every
\* parameter without a break before.
C37_Witness ==
    /\ op.ev = "GET" /\ op.from = AUTOSAMPLE /\ mode = AUTOSAMPLE
    /\ now > 0
    /\ err = NoErr
    /\ Len(trace) = Len(UpdateKeys) + 1
    /\ trace[1].s = "wakeup"
    /\ \A k \in ParamKeys : cache[k].ts = now

----------------------------------------------------------------------------
(* The scheduled events and the modes that handle them *)

\* C38: the three events the scheduler raises are handled in COMMAND and in
\* AUTOSAMPLE and nowhere else: raised in UNKNOWN or DIRECT_ACCESS such an
\* event is refused by the state machine with nothing sent, the mode and the
\* list of commands to filter from the echo left as they were; raised in
\* COMMAND or AUTOSAMPLE it is never refused for want of a handler
C38_ScheduledOnlyWhereHandled ==
    [][op'.ev \in ScheduledJob =>
          IF mode \in {UNKNOWN, DIRECT_ACCESS}
          THEN /\ op'.from = mode
               /\ err' = Fault("fsm", "State")
               /\ trace' = <<>>
               /\ events' = <<>>
               /\ mode' = mode
               /\ sent_cmds' = sent_cmds
          ELSE /\ mode \in {COMMAND, AUTOSAMPLE}
               /\ op'.from = mode
               /\ err' # Fault("fsm", "State")
               /\ \A f \in DOMAIN faults' : faults'[f].phase # "fsm"]_vars

\* a scheduled event refused in DIRECT_ACCESS with commands in the filter list
C38_Witness ==
    /\ op.ev \in ScheduledJob
    /\ op.from = DIRECT_ACCESS
    /\ mode = DIRECT_ACCESS
    /\ sent_cmds # <<>>
    /\ err = Fault("fsm", "State")
    /\ trace = <<>>

----------------------------------------------------------------------------
(* What decides the interruption in the startup application *)

\* the last operation was the startup application, it passed its state check
\* and its opening probe returned
StartupProbed ==
    /\ op.ev = "apply_startup_params"
    /\ op.from \in {COMMAND, AUTOSAMPLE}
    /\ trace # <<>>
    /\ trace[1].p = <<"_is_logging">>
    /\ trace[1].o # NoPrompt

\* C39: the startup application stops and restarts logging by what its
\* opening probe found, whatever the tracked mode: when the probe found the
\* instrument not logging no break goes out and nothing of _start_logging
\* runs, however the call ends; when it found the instrument logging the
\* break of _stop_logging is the next step and _start_logging runs last,
\* in COMMAND as in AUTOSAMPLE
C39_ProbeDecidesInterrupt ==
    StartupProbed =>
        IF logging_of(trace[1].o)
        THEN /\ Len(trace) >= 3
             /\ trace[2].s = "break" /\ trace[2].p = <<"_stop_logging">>
             /\ RestartRan
             /\ InProc(trace[Len(trace)], "_start_logging")
        ELSE \A i \in DOMAIN trace :
                /\ trace[i].s \notin {"break", "wakeup_until", START_DEPLOYMENT}
                /\ ~InProc(trace[i], "_stop_logging")
                /\ ~InProc(trace[i], "_start_logging")

\* called in COMMAND with the probe finding the instrument logging: stopped,
\* applied and restarted with the start command
C39_Witness ==
    /\ StartupProbed
    /\ op.from = COMMAND /\ mode = COMMAND
    /\ logging_of(trace[1].o)
    /\ trace[2].s = "break"
    /\ Sets # <<>>
    /\ trace[Len(trace)].s = START_DEPLOYMENT
    /\ err = NoErr

----------------------------------------------------------------------------
(* The glider parser: reading and publishing *)

\* the saved states a caller holds when the parser is built
SavedStates == {StateDict(pos, ts) : pos \in 0..1, ts \in 0..1}

\* the parser built without a state or from one of the caller's saved states;
\* StateKey is the one glider.py declares, or one that resolves TIMESTAMP too
InitGlider ==
    /\ mode = UNKNOWN
    /\ op = NoOp
    /\ trace = <<>>
    /\ faults = <<>>
    /\ err = NoErr
    /\ events = <<>>
    /\ sent_cmds = <<>>
    /\ TxInit
    /\ ParamInit
    /\ SieveInit
    /\ device = CanonDevice
    /\ \E a \in SavedStates, b \in SavedStates, state \in {NoRef} \cup SavedRefs,
          sk \in {StateKey, StateKeyResolving} :
          ParserBuilt(a, b, sk, state)

\* the caller restores the parser: set_state with one of its objects
SetState ==
    /\ parser.built
    /\ \E ref \in CallerRefs :
        LET r == set_state(heap, state_key, parser, ref)
        IN /\ heap' = r.heap
           /\ parser' = r.parser
           /\ parser_op' = ParserOp("set_state", ref, 0, 0, r.exc)
    /\ UNCHANGED state_key
    /\ UNCHANGED opvars
    /\ UNCHANGED txvars
    /\ UNCHANGED pvars
    /\ UNCHANGED svars

\* the parser has read increment bytes up to the record stamped timestamp
IncrementState ==
    /\ parser.built
    /\ \E increment \in 1..MaxPosition, timestamp \in 0..MaxStamp :
        LET r == increment_state(heap, state_key, parser, increment, timestamp)
        IN /\ heap[parser.read_state].position + increment <= MaxPosition
           /\ heap' = r.heap
           /\ parser_op' = ParserOp("_increment_state", NoRef, increment, timestamp, r.exc)
    /\ UNCHANGED <<parser, state_key>>
    /\ UNCHANGED opvars
    /\ UNCHANGED txvars
    /\ UNCHANGED pvars
    /\ UNCHANGED svars

NextGlider == SetState \/ IncrementState

SpecGlider == InitGlider /\ [][NextGlider]_vars

\* C40: after _increment_state the read state is the one before it with the
\* position advanced by the byte count and the timestamp replaced, and the
\* published state (_state) is what it was before the call, also when the
\* parser was restored with set_state
C40_IncrementKeepsPublished ==
    parser_op.name = "_increment_state" =>
        /\ parser_op.exc = NoExc
        /\ Deref(heap, parser.read_state) =
              [parser_op.read EXCEPT
                  !.position = @ + parser_op.increment,
                  !.timestamp = parser_op.timestamp]
        /\ Deref(heap, parser.state) = parser_op.published

====
